---- MODULE Spec2Model ----
(***************************************************************************)
(* The semi2k arithmetic-sharing kernels of libspu/mpc/semi2k/arithmetic.cc *)
(* as a state machine.  All parties of a session execute the same kernel    *)
(* call; one action is one kernel invocation run by every party, with the   *)
(* blocking collectives (all-reduce, gather, send/recv) evaluated over the  *)
(* contributions of all parties.  Arrays hold one element; a ring element   *)
(* of a k-bit field is an integer in 0 .. 2^k - 1.                          *)
(***************************************************************************)
EXTENDS Integers, Sequences, FiniteSets, TLC

(* ------------------------------ bounds -------------------------------- *)
\* largest world size explored (world sizes are 2 .. MaxParties)
MaxParties == 3
\* width in bits of the field of the multiplication specifications
MulBits == 2
\* number of seeds the randomness sources (PRG, Beaver source) draw from
NumSeeds == 2
\* kernel invocations per behaviour
MaxCalls == 2
\* width in bits of the field of the concrete multiplication scenario
ScenarioBits == 6
\* width in bits of the field of the conversion specification
ConvBits == 3
\* conversions chained per behaviour
MaxChain == 3
\* width in bits of the field of the truncation specification
TruncBits == 5
\* width in bits of the field of the concrete truncation scenario
TruncScenarioBits == 8
\* width in bits of the field of the private-multiplication specification
VvsBits == 2
\* widths in bits of the two fields of the field-mismatch specification
NarrowBits == 2
WideBits == 3
\* the largest number of rows and of columns of a matrix
MaxDim == 2
\* the ring width of the matrix multiplications
DotBits == 2
\* width in bits of the field of the arithmetic-by-bit multiplications
A1BBits == 3
\* widths in bits of the two fields of the two-party truncation, the
\* narrower one also the truncation ring of small shifts
TruncNarrowBits == 4
TruncWideBits == 6
\* width in bits of the default field of the random sharings
RandBits == 5
\* width in bits of the field of the additions
AddBits == 3
\* width in bits of the field of the session of all kernels
FrameBits == 3

VARIABLES
  n,       \* world size (Communicator::getWorldSize)
  novec,   \* config().experimental_disable_vectorization
  store,   \* the values held by the caller: id -> [field, ty, owner, imag,
           \* sh: rank -> element held by the rank]
  cache,   \* per party, the Beaver replay cache: rank -> id -> entry
  call,    \* the last kernel invocation and the randomness it consumed
  res,     \* per party, the outcome of the last invocation
  prev,    \* summary of the invocation before the last one
  ncalls,  \* number of kernel invocations so far
  touched, \* SetBeaverCache ran since the last kernel invocation
  hist     \* the kernels of the chain of conversions applied to store["x"]

vars == <<n, novec, store, cache, call, res, prev, ncalls, touched, hist>>

Parties == 0 .. (n - 1)
Seeds == 0 .. (NumSeeds - 1)
Ids == {"x", "y"}

(* --------------------------- ring primitives -------------------------- *)
Pow2(e) == 2 ^ e
Ring(k) == 0 .. (Pow2(k) - 1)
\* the value of a ring element read as a signed k-bit integer
Signed(k, v) == IF v >= Pow2(k - 1) THEN v - Pow2(k) ELSE v
ring_add(k, a, b) == (a + b) % Pow2(k)
ring_sub(k, a, b) == (a - b) % Pow2(k)
ring_neg(k, a) == (0 - a) % Pow2(k)
ring_mul(k, a, b) == (a * b) % Pow2(k)
ring_lshift(k, a, s) == (a * Pow2(s)) % Pow2(k)
ring_rshift(k, a, s) == a \div Pow2(s)
ring_arshift(k, a, s) == (Signed(k, a) \div Pow2(s)) % Pow2(k)
\* bits [lo, hi) of a, kept in place
ring_bitmask(k, a, lo, hi) == ((a \div Pow2(lo)) % Pow2(hi - lo)) * Pow2(lo)

RECURSIVE SumUpTo(_, _, _)
\* f[0] + ... + f[m] in the k-bit ring
SumUpTo(k, f, m) == IF m < 0 THEN 0 ELSE ring_add(k, SumUpTo(k, f, m - 1), f[m])

\* Communicator::allReduce(ReduceOp::ADD, ...): the sum of all parties' inputs
allReduce(k, contrib) == SumUpTo(k, contrib, n - 1)

(* ------------------------- randomness sources ------------------------- *)
\* element i of the pseudorandom stream of seed s
Prg(k, s, i) == ((s + 1) * (2 * i + 1) + i * i) % Pow2(k)

\* an additive sharing of v among m parties: rank 0 holds r, the ranks in
\* between draw from stream s, the last rank holds the remainder
ShareOf(k, m, v, r, s) ==
  LET head == [p \in 0 .. (m - 2) |-> IF p = 0 THEN r ELSE Prg(k, s, p)]
  IN [p \in 0 .. (m - 1) |->
        IF p < m - 1 THEN head[p]
        ELSE ring_sub(k, v, SumUpTo(k, head, m - 2))]

(* --------------------------- Beaver replay cache ---------------------- *)
\* one opened masking: the replay descriptor (status, seed, counter) and the
\* opened value
InitOpen == [status |-> "Init", seed |-> 0, ctr |-> 0, open |-> 0]
\* the cache of one operand identity: caching off, nothing opened
NoEntry == [enabled |-> FALSE, elt |-> InitOpen, dot |-> InitOpen]

\* BeaverCache::EnableCache on the cache c of one party
EnableCache(c, id) ==
  IF c[id].enabled THEN c ELSE [c EXCEPT ![id] = [NoEntry EXCEPT !.enabled = TRUE]]
\* BeaverCache::DisableCache switching caching off but keeping the openings
DisableCache_KeepEntry(c, id) == [c EXCEPT ![id].enabled = FALSE]
\* BeaverCache::DisableCache
DisableCache(c, id) == [c EXCEPT ![id] = NoEntry]
\* BeaverCache::GetCache: a copy of the entry of (id, mmul)
GetCache(c, id, mmul) ==
  LET e == IF mmul THEN c[id].dot ELSE c[id].elt
  IN IF id \in DOMAIN c /\ c[id].enabled
       THEN [enabled |-> TRUE, status |-> e.status, seed |-> e.seed,
             ctr |-> e.ctr, open |-> e.open]
       ELSE [enabled |-> FALSE, status |-> "Init", seed |-> 0, ctr |-> 0,
             open |-> 0]
\* BeaverCache::SetCache: store the descriptor d, now replayable, and the
\* opened value
SetCache(c, id, mmul, d, opened) ==
  LET e == [status |-> "Replay", seed |-> d.seed, ctr |-> d.ctr, open |-> opened]
  IN IF id \notin DOMAIN c \/ ~c[id].enabled THEN c
     ELSE IF mmul THEN [c EXCEPT ![id].dot = e] ELSE [c EXCEPT ![id].elt = e]

(* ----------------------------- Beaver source -------------------------- *)
\* the mask share of rank p for an operand: replayed from the descriptor d
\* when one is passed and already opened, else drawn from stream t at off
MaskShare(k, t, off, p, passed, d) ==
  IF passed /\ d.status # "Init" THEN Prg(k, d.seed, d.ctr + p)
  ELSE Prg(k, t, off + p)
\* the descriptor after the Beaver call: a fresh one records its stream
DescOut(t, off, passed, d) ==
  IF passed /\ d.status = "Init" THEN [d EXCEPT !.seed = t, !.ctr = off] ELSE d

\* x_cache fetched from the party's cache by rank 0 only
XCacheOf_RankZero(p, x, mmul) ==
  IF p = 0 THEN GetCache(cache[p], x, mmul) ELSE GetCache(cache[p], "none", mmul)
\* x_cache and y_cache as MulOpen holds them before the Beaver call
XCacheOf(p, x, mmul) == GetCache(cache[p], x, mmul)
YCacheOf(p, x, y, mmul) ==
  LET xc == XCacheOf(p, x, mmul)
      yc == GetCache(cache[p], y, mmul)
  IN IF x = y /\ xc.enabled /\ xc.status = "Init"
       THEN [yc EXCEPT !.enabled = FALSE]
       ELSE yc

\* Beaver::Mul / Beaver::Dot on one-element arrays: shares (a, b, c) of all
\* ranks with (sum a) * (sum b) = sum c; the last rank holds the adjustment;
\* over is what the memory behind a buffer happens to hold
BeaverMul(k, t, x, y, mmul) ==
  LET a == [q \in Parties |->
              LET xc == XCacheOf(q, x, mmul)
              IN MaskShare(k, t, 0, q, xc.enabled, xc)]
      b == [q \in Parties |->
              LET yc == YCacheOf(q, x, y, mmul)
              IN MaskShare(k, t, n, q, yc.enabled, yc)]
      ch == [q \in 0 .. (n - 2) |-> Prg(k, t, 2 * n + q)]
      ab == ring_mul(k, allReduce(k, a), allReduce(k, b))
  IN [seed |-> t, a |-> a, b |-> b, over |-> Prg(1, t, 3 * n),
      c |-> [q \in Parties |->
               IF q < n - 1 THEN ch[q]
               ELSE ring_sub(k, ab, SumUpTo(k, ch, n - 2))]]

\* Beaver::Square: shares (a, b) of all ranks with sum b = (sum a)^2
BeaverSquare(k, t, x) ==
  LET a == [q \in Parties |->
              LET xc == XCacheOf(q, x, FALSE)
              IN MaskShare(k, t, 0, q, xc.enabled, xc)]
      bh == [q \in 0 .. (n - 2) |-> Prg(k, t, n + q)]
      aa == ring_mul(k, allReduce(k, a), allReduce(k, a))
  IN [seed |-> t, a |-> a,
      b |-> [q \in Parties |->
               IF q < n - 1 THEN bh[q]
               ELSE ring_sub(k, aa, SumUpTo(k, bh, n - 2))]]

(* ------------------------- multiplication engine ---------------------- *)
\* the operand of identity id as the kernels see it
Arg(id) ==
  [id |-> id, field |-> store[id].field, ty |-> store[id].ty,
   owner |-> store[id].owner, sh |-> store[id].sh]

\* the ring primitives' precondition on two operands: the same field
SameField(fa, fb) == fa = fb

\* the all-reduce calls of MulOpen's opening step: one per operand that
\* misses the cache when the openings go one by one, else one batched call
\* (none when packing the batch fails)
OpenRounds_PerOperand(oneByOne, x_hit_cache, y_hit_cache, packFails) ==
  IF packFails THEN 0
  ELSE (IF x_hit_cache THEN 0 ELSE 1) + (IF y_hit_cache THEN 0 ELSE 1)
OpenRounds_AlwaysOpen(oneByOne, x_hit_cache, y_hit_cache, packFails) ==
  IF oneByOne THEN 2 ELSE IF packFails THEN 0 ELSE 1
OpenRounds(oneByOne, x_hit_cache, y_hit_cache, packFails) ==
  IF oneByOne
    THEN (IF x_hit_cache THEN 0 ELSE 1) + (IF y_hit_cache THEN 0 ELSE 1)
    ELSE IF packFails THEN 0 ELSE 1

\* MulOpen's stores into the cache c of the party: the opening of every
\* operand whose caching is on and whose descriptor is still Init
\* MulOpen's stores with the entry of x sharing the buffer of x_a, which the
\* combination step of rank 0 then overwrites with x_a * y_b
StoreOpened_Shared(c, xid, yid, mmul, x_cache, x_desc, x_a, y_cache, y_desc, y_b) ==
  LET c1 == IF x_cache.enabled /\ x_desc.status = "Init"
              THEN SetCache(c, xid, mmul, x_desc, x_a * y_b)
              ELSE c
  IN IF y_cache.enabled /\ y_desc.status = "Init"
       THEN SetCache(c1, yid, mmul, y_desc, y_b)
       ELSE c1
StoreOpened_Swapped(c, xid, yid, mmul, x_cache, x_desc, x_a, y_cache, y_desc, y_b) ==
  LET c1 == IF x_cache.enabled /\ x_desc.status = "Init"
              THEN SetCache(c, xid, mmul, x_desc, y_b)
              ELSE c
  IN IF y_cache.enabled /\ y_desc.status = "Init"
       THEN SetCache(c1, yid, mmul, y_desc, x_a)
       ELSE c1
StoreOpened(c, xid, yid, mmul, x_cache, x_desc, x_a, y_cache, y_desc, y_b) ==
  LET c1 == IF x_cache.enabled /\ x_desc.status = "Init"
              THEN SetCache(c, xid, mmul, x_desc, x_a)
              ELSE c
  IN IF y_cache.enabled /\ y_desc.status = "Init"
       THEN SetCache(c1, yid, mmul, y_desc, y_b)
       ELSE c1

\* an element of a buffer of k-bit elements read as a ky-bit element: its
\* low bits, and above them whatever lies behind the buffer
BufferAs(v, k, ky, over) ==
  IF ky <= k THEN v % Pow2(ky) ELSE (v + over * Pow2(k)) % Pow2(ky)

\* MulOpen from the Beaver call on, opening x itself instead of x-a
MulOpenFrom_Unmasked(p, xv, yv, mmul, tr, x_cache, y_cache) ==
  LET k == xv.field
      ky == yv.field
      x_desc == DescOut(tr.seed, 0, x_cache.enabled, x_cache)
      y_desc == DescOut(tr.seed, n, y_cache.enabled, y_cache)
      x_hit_cache == x_desc.status # "Init"
      y_hit_cache == y_desc.status # "Init"
      oneByOne == novec \/ x_hit_cache \/ y_hit_cache
      open_x == allReduce(k, [q \in Parties |-> xv.sh[q]])
      \* b is the Beaver buffer viewed with y's type
      open_y == allReduce(ky, [q \in Parties |->
                                 ring_sub(ky, yv.sh[q],
                                          BufferAs(tr.b[q], k, ky, tr.over))])
      x_a == IF oneByOne /\ x_hit_cache THEN x_cache.open ELSE open_x
      y_b == IF oneByOne /\ y_hit_cache THEN y_cache.open ELSE open_y
      \* vmap packs x-a and y-b into one array of one type
      packFails == ~oneByOne /\ ~SameField(k, ky)
      comm == OpenRounds(oneByOne, x_hit_cache, y_hit_cache, packFails)
      c2 == StoreOpened(cache[p], xv.id, yv.id, mmul, x_cache, x_desc, x_a,
                        y_cache, y_desc, y_b)
  IN [st |-> IF packFails THEN "fatal" ELSE "ok",
      a |-> tr.a[p], b |-> tr.b[p], c |-> tr.c[p], x_a |-> x_a, y_b |-> y_b,
      x_hit |-> x_hit_cache, y_hit |-> y_hit_cache,
      comm |-> comm, cache |-> IF packFails THEN cache[p] ELSE c2]

\* MulOpen from the Beaver call on, x_cache and y_cache fetched: the triple
\* shares, the opened x-a and y-b, the number of all-reduce calls and the
\* party's cache afterwards
MulOpenFrom(p, xv, yv, mmul, tr, x_cache, y_cache) ==
  LET k == xv.field
      ky == yv.field
      x_desc == DescOut(tr.seed, 0, x_cache.enabled, x_cache)
      y_desc == DescOut(tr.seed, n, y_cache.enabled, y_cache)
      x_hit_cache == x_desc.status # "Init"
      y_hit_cache == y_desc.status # "Init"
      oneByOne == novec \/ x_hit_cache \/ y_hit_cache
      open_x == allReduce(k, [q \in Parties |-> ring_sub(k, xv.sh[q], tr.a[q])])
      \* b is the Beaver buffer viewed with y's type
      open_y == allReduce(ky, [q \in Parties |->
                                 ring_sub(ky, yv.sh[q],
                                          BufferAs(tr.b[q], k, ky, tr.over))])
      x_a == IF oneByOne /\ x_hit_cache THEN x_cache.open ELSE open_x
      y_b == IF oneByOne /\ y_hit_cache THEN y_cache.open ELSE open_y
      \* vmap packs x-a and y-b into one array of one type
      packFails == ~oneByOne /\ ~SameField(k, ky)
      comm == OpenRounds(oneByOne, x_hit_cache, y_hit_cache, packFails)
      c2 == StoreOpened(cache[p], xv.id, yv.id, mmul, x_cache, x_desc, x_a,
                        y_cache, y_desc, y_b)
  IN [st |-> IF packFails THEN "fatal" ELSE "ok",
      a |-> tr.a[p], b |-> tr.b[p], c |-> tr.c[p], x_a |-> x_a, y_b |-> y_b,
      x_hit |-> x_hit_cache, y_hit |-> y_hit_cache,
      comm |-> comm, cache |-> IF packFails THEN cache[p] ELSE c2]

\* MulOpen as run by rank p on operands xv, yv, the Beaver source dealing
\* the triple tr
MulOpen(p, xv, yv, mmul, tr) ==
  MulOpenFrom(p, xv, yv, mmul, tr, XCacheOf(p, xv.id, mmul),
              YCacheOf(p, xv.id, yv.id, mmul))

\* what a kernel built on MulOpen returns with the result share z
MulResult(o, ok, z) ==
  [out |-> [st |-> IF ok THEN "ok" ELSE "fatal", v |-> IF ok THEN z ELSE 0,
            comm |-> o.comm,
            a |-> o.a, b |-> o.b, c |-> o.c, x_a |-> o.x_a, y_b |-> o.y_b,
            x_hit |-> o.x_hit, y_hit |-> o.y_hit],
   cache |-> o.cache]

\* MulAA::proc after MulOpen, with (X-A)*(Y-B) added by every rank
MulAA_share_EveryRank(p, k, o) ==
  LET xb == ring_mul(k, o.b, o.x_a)
      ya == ring_mul(k, o.a, o.y_b)
      z == ring_add(k, ring_add(k, xb, ya), o.c)
  IN ring_add(k, z, ring_mul(k, o.x_a, o.y_b))

\* MulAA::proc after MulOpen returned o: the share of rank p
MulAA_share(p, k, o) ==
  LET xb == ring_mul(k, o.b, o.x_a)
      ya == ring_mul(k, o.a, o.y_b)
      z == ring_add(k, ring_add(k, xb, ya), o.c)
  IN IF p = 0 THEN ring_add(k, z, ring_mul(k, o.x_a, o.y_b)) ELSE z

\* what MulAA::proc returns on rank p after MulOpen returned o
MulAA_after(p, k, ky, o) ==
  MulResult(o, o.st = "ok" /\ SameField(ky, k), MulAA_share(p, k, o))

\* MulAA::proc on rank p
MulAA_proc(p, xv, yv, tr) ==
  MulAA_after(p, xv.field, yv.field, MulOpen(p, xv, yv, FALSE, tr))

\* SquareA::proc without the factor 2 of the cross term
SquareA_proc_NoDouble(p, xv, pr) ==
  LET k == xv.field
      x_cache == XCacheOf(p, xv.id, FALSE)
      x_desc == DescOut(pr.seed, 0, x_cache.enabled, x_cache)
      hit == x_desc.status # "Init"
      x_a == IF hit THEN x_cache.open
             ELSE allReduce(k, [q \in Parties |-> ring_sub(k, xv.sh[q], pr.a[q])])
      c1 == IF x_cache.enabled /\ x_desc.status = "Init"
              THEN SetCache(cache[p], xv.id, FALSE, x_desc, x_a)
              ELSE cache[p]
      z == ring_add(k, ring_mul(k, pr.a[p], x_a), pr.b[p])
      z0 == IF p = 0 THEN ring_add(k, z, ring_mul(k, x_a, x_a)) ELSE z
  IN [out |-> [st |-> "ok", v |-> z0, comm |-> IF hit THEN 0 ELSE 1,
                a |-> pr.a[p], b |-> pr.b[p], c |-> 0, x_a |-> x_a, y_b |-> x_a,
                x_hit |-> hit, y_hit |-> hit],
      cache |-> c1]

\* SquareA::proc on rank p
SquareA_proc(p, xv, pr) ==
  LET k == xv.field
      x_cache == XCacheOf(p, xv.id, FALSE)
      x_desc == DescOut(pr.seed, 0, x_cache.enabled, x_cache)
      hit == x_desc.status # "Init"
      x_a == IF hit THEN x_cache.open
             ELSE allReduce(k, [q \in Parties |-> ring_sub(k, xv.sh[q], pr.a[q])])
      c1 == IF x_cache.enabled /\ x_desc.status = "Init"
              THEN SetCache(cache[p], xv.id, FALSE, x_desc, x_a)
              ELSE cache[p]
      z == ring_add(k, ring_mul(k, ring_mul(k, pr.a[p], x_a), 2), pr.b[p])
      z0 == IF p = 0 THEN ring_add(k, z, ring_mul(k, x_a, x_a)) ELSE z
  IN [out |-> [st |-> "ok", v |-> z0, comm |-> IF hit THEN 0 ELSE 1,
                a |-> pr.a[p], b |-> pr.b[p], c |-> 0, x_a |-> x_a, y_b |-> x_a,
                x_hit |-> hit, y_hit |-> hit],
      cache |-> c1]

(* ------------------------------ invocations --------------------------- *)
NoCall == [op |-> "none", x |-> "x", y |-> "x", seed |-> 0, ctl |-> FALSE,
           xen |-> FALSE, yen |-> FALSE, dirty |-> FALSE]
NoPrev == [op |-> "none", x |-> "x", y |-> "x", comm |-> 0, ctl |-> FALSE,
           xen |-> FALSE, yen |-> FALSE, xhit |-> FALSE, yhit |-> FALSE]
Idle == [st |-> "idle", v |-> 0, comm |-> 0]

\* the record of an invocation of op on (x, y) with randomness t
CallOf(op, x, y, t) ==
  [op |-> op, x |-> x, y |-> y, seed |-> t, ctl |-> touched,
   xen |-> GetCache(cache[0], x, FALSE).enabled,
   yen |-> GetCache(cache[0], y, FALSE).enabled,
   dirty |-> FALSE]

\* what is kept of an invocation once the next one has run
Summary ==
  [op |-> call.op, x |-> call.x, y |-> call.y, comm |-> res[0].comm,
   ctl |-> call.ctl, xen |-> call.xen, yen |-> call.yen,
   xhit |-> IF "x_hit" \in DOMAIN res[0] THEN res[0].x_hit ELSE FALSE,
   yhit |-> IF "y_hit" \in DOMAIN res[0] THEN res[0].y_hit ELSE FALSE]

\* every party has run the kernel: outs[p] is what rank p ended with; the
\* invocation is dirty when it changed a replay-cache entry
Finish(c, outs) ==
  /\ call' = [c EXCEPT !.dirty = ([p \in Parties |-> outs[p].cache] # cache)]
  /\ res' = [p \in Parties |-> outs[p].out]
  /\ cache' = [p \in Parties |-> outs[p].cache]
  /\ prev' = Summary
  /\ ncalls' = ncalls + 1
  /\ touched' = FALSE
  /\ UNCHANGED <<n, novec, store, hist>>

\* every party runs MulAA::proc on (x, y); the Beaver source draws seed t
MulAA(x, y) ==
  /\ ncalls < MaxCalls
  /\ \E t \in Seeds :
    \E tr \in {BeaverMul(store[x].field, t, x, y, FALSE)} :
      \E outs \in {[p \in Parties |-> MulAA_proc(p, Arg(x), Arg(y), tr)]} :
        Finish(CallOf("MulAA", x, y, t), outs)

\* every party runs SquareA::proc on x
SquareA(x) ==
  /\ ncalls < MaxCalls
  /\ \E t \in Seeds :
    \E pr \in {BeaverSquare(store[x].field, t, x)} :
      \E outs \in {[p \in Parties |-> SquareA_proc(p, Arg(x), pr)]} :
        Finish(CallOf("SquareA", x, x, t), outs)

\* BeaverCacheKernel::evaluate switching every entry of the cache
SetBeaverCache_EveryEntry(v, enable_cache) ==
  /\ ncalls < MaxCalls
  /\ cache' = [p \in Parties |->
                 IF enable_cache
                   THEN EnableCache(EnableCache(cache[p], "x"), "y")
                   ELSE DisableCache(DisableCache(cache[p], "x"), "y")]
  /\ cache' # cache
  /\ touched' = TRUE
  /\ UNCHANGED <<n, novec, store, call, res, prev, ncalls, hist>>

\* BeaverCacheKernel::evaluate on every party
SetBeaverCache(v, enable_cache) ==
  /\ ncalls < MaxCalls
  /\ cache' = [p \in Parties |->
                 LET c1 == IF enable_cache THEN EnableCache(cache[p], v)
                           ELSE DisableCache(cache[p], v)
                     im == store[v].imag
                 IN IF im = "none" THEN c1
                    ELSE IF enable_cache THEN EnableCache(c1, im)
                    ELSE DisableCache(c1, im)]
  /\ cache' # cache
  /\ touched' = TRUE
  /\ UNCHANGED <<n, novec, store, call, res, prev, ncalls, hist>>

(* ----------------- the multiplication specification ------------------- *)
\* an arithmetic share value of plaintext v
AShare(k, m, v, s) ==
  [field |-> k, ty |-> "A", owner |-> 0, imag |-> "none",
   sh |-> ShareOf(k, m, v, Prg(k, s, 0), s)]

InitCommon ==
  /\ cache = [p \in Parties |-> [i \in Ids |-> NoEntry]]
  /\ call = NoCall
  /\ res = [p \in Parties |-> Idle]
  /\ prev = NoPrev
  /\ ncalls = 0
  /\ touched = FALSE
  /\ hist = <<>>

\* x = 7 shared as (3, 4) and y = 5 shared as (2, 3) between two parties
ScenarioStore ==
  [i \in Ids |->
     [field |-> ScenarioBits, ty |-> "A", owner |-> 0, imag |-> "none",
      sh |-> IF i = "x" THEN [p \in 0 .. 1 |-> 3 + p]
             ELSE [p \in 0 .. 1 |-> 2 + p]]]

InitMul ==
  /\ novec \in BOOLEAN
  /\ \/ /\ n \in 2 .. MaxParties
        /\ \E vx, vy \in Ring(MulBits), s \in Seeds :
             store = [i \in Ids |->
                        IF i = "x" THEN AShare(MulBits, n, vx, s)
                        ELSE AShare(MulBits, n, vy, s + 1)]
     \/ /\ n = 2
        /\ store = ScenarioStore
  /\ InitCommon

\* the multiplications are against the operand "x": as the first operand,
\* as the second one, or as both
NextMul ==
  \/ \E y \in Ids : MulAA("x", y)
  \/ MulAA("y", "x")
  \/ SquareA("x")
  \/ \E v \in Ids, e \in BOOLEAN : SetBeaverCache(v, e)

SpecMul == InitMul /\ [][NextMul]_vars

(* ------------------------------ conversions --------------------------- *)
\* PrgState::genPrssPair(Both) on rank p: r0 of a rank is r1 of its
\* neighbour, so the differences r0 - r1 of all ranks sum to zero
genPrssPair(k, t, p) ==
  [r0 |-> Prg(k, t, p), r1 |-> Prg(k, t, (p + n - 1) % n)]

\* the element of the placeholder array a non-owner holds
makeConstantArrayRef == 0

\* Communicator::gather: the root receives the contribution of every rank,
\* the other ranks receive nothing
gather(contrib, root, p) == IF p = root THEN contrib ELSE <<>>

\* the value the chain of conversions has reached
Cur ==
  IF hist = <<>>
    THEN [field |-> store["x"].field, ty |-> store["x"].ty,
          owner |-> store["x"].owner, sh |-> store["x"].sh]
    ELSE [field |-> store["x"].field, ty |-> res[0].ty,
          owner |-> res[0].owner, sh |-> [p \in Parties |-> res[p].v]]

\* P2A::proc with the public value added by every rank
P2A_proc_EveryRank(p, in, t) ==
  LET k == in.field
      pr == genPrssPair(k, t, p)
      x == ring_sub(k, pr.r0, pr.r1)
  IN [st |-> "ok", v |-> ring_add(k, x, in.sh[p]), comm |-> 0,
      ty |-> "A", owner |-> 0]

\* P2A::proc on rank p
P2A_proc(p, in, t) ==
  LET k == in.field
      pr == genPrssPair(k, t, p)
      x == ring_sub(k, pr.r0, pr.r1)
  IN [st |-> "ok", v |-> IF p = 0 THEN ring_add(k, x, in.sh[p]) ELSE x,
      comm |-> 0, ty |-> "A", owner |-> 0]

\* A2P::proc on rank p
A2P_proc(p, in) ==
  [st |-> "ok", v |-> allReduce(in.field, in.sh), comm |-> 1,
   ty |-> "P", owner |-> 0]

\* A2V::proc on rank p, revealing to rank
A2V_proc(p, in, rank) ==
  LET k == in.field
      shares == gather(in.sh, rank, p)
  IN IF p = rank
       THEN [st |-> IF Cardinality(DOMAIN shares) = n THEN "ok" ELSE "fatal",
             v |-> SumUpTo(k, shares, Cardinality(DOMAIN shares) - 1),
             comm |-> 1, ty |-> "V", owner |-> rank]
       ELSE [st |-> "ok", v |-> makeConstantArrayRef, comm |-> 1,
             ty |-> "V", owner |-> rank]

\* V2A::proc with the private input added by rank 0
V2A_proc_RankZero(p, in, t) ==
  LET k == in.field
      pr == genPrssPair(k, t, p)
      x == ring_sub(k, pr.r0, pr.r1)
  IN [st |-> "ok", v |-> IF p = 0 THEN ring_add(k, x, in.sh[p]) ELSE x,
      comm |-> 0, ty |-> "A", owner |-> 0]

\* V2A::proc on rank p
V2A_proc(p, in, t) ==
  LET owner_rank == in.owner
      k == in.field
      pr == genPrssPair(k, t, p)
      x == ring_sub(k, pr.r0, pr.r1)
  IN [st |-> "ok",
      v |-> IF p = owner_rank THEN ring_add(k, x, in.sh[p]) ELSE x,
      comm |-> 0, ty |-> "A", owner |-> 0]

\* every party has run the conversion: outs[p] is what rank p returned
ConvFinish(c, outs) ==
  /\ call' = c
  /\ res' = outs
  /\ hist' = Append(hist, c.op)
  /\ ncalls' = ncalls + 1
  /\ UNCHANGED <<n, novec, store, cache, prev, touched>>

P2A ==
  /\ Len(hist) < MaxChain /\ Cur.ty = "P"
  /\ \E t \in Seeds :
       ConvFinish(CallOf("P2A", "x", "x", t),
                  [p \in Parties |-> P2A_proc(p, Cur, t)])

A2P ==
  /\ Len(hist) < MaxChain /\ Cur.ty = "A"
  /\ ConvFinish(CallOf("A2P", "x", "x", 0),
                [p \in Parties |-> A2P_proc(p, Cur)])

A2V ==
  /\ Len(hist) < MaxChain /\ Cur.ty = "A"
  /\ \E rank \in Parties :
       ConvFinish(CallOf("A2V", "x", "x", 0),
                  [p \in Parties |-> A2V_proc(p, Cur, rank)])

V2A ==
  /\ Len(hist) < MaxChain /\ Cur.ty = "V"
  /\ \E t \in Seeds :
       ConvFinish(CallOf("V2A", "x", "x", t),
                  [p \in Parties |-> V2A_proc(p, Cur, t)])

\* a public value v: every rank holds it
PubValue(k, v) ==
  [field |-> k, ty |-> "P", owner |-> 0, imag |-> "none",
   sh |-> [p \in Parties |-> v]]

\* a value v private to rank o: the other ranks hold some placeholder
PrivValue(k, o, v, s) ==
  [field |-> k, ty |-> "V", owner |-> o, imag |-> "none",
   sh |-> [p \in Parties |-> IF p = o THEN v ELSE Prg(k, s, p)]]

InitConv ==
  /\ n \in 2 .. MaxParties
  /\ novec = FALSE
  /\ \E v \in Ring(ConvBits), s \in Seeds :
       \E val \in {AShare(ConvBits, n, v, s), PubValue(ConvBits, v)}
                  \cup {PrivValue(ConvBits, o, v, s) : o \in Parties} :
         store = [i \in Ids |-> val]
  /\ InitCommon

NextConv == P2A \/ A2P \/ A2V \/ V2A

SpecConv == InitConv /\ [][NextConv]_vars

(* ------------------------------- truncation --------------------------- *)
\* Beaver::Trunc: shares of a random r and of r shifted arithmetically
BeaverTrunc(k, t, bits, r) ==
  [r |-> ShareOf(k, n, r, Prg(k, t, 0), t),
   rb |-> ShareOf(k, n, ring_arshift(k, r, bits), Prg(k, t, n), t + 1)]

\* Beaver::TruncPr: shares of a random r, of (r mod 2^(k-1)) >> bits and of
\* the top bit of r
BeaverTruncPr(k, t, bits, r) ==
  [r |-> ShareOf(k, n, r, Prg(k, t, 0), t),
   rc |-> ShareOf(k, n, ring_rshift(k, ring_lshift(k, r, 1), bits + 1),
                  Prg(k, t, n), t + 1),
   rb |-> ShareOf(k, n, ring_rshift(k, r, k - 1), Prg(k, t, 2 * n), t + 2)]

\* the shift amounts explored for a k-bit field
TruncShifts(k) == 0 .. (k - 2)

\* TruncA::proc shifting the shares logically
TruncA_proc_Logical(p, x, bits, tp) ==
  LET k == x.field
      x_r == allReduce(k, [q \in Parties |-> ring_sub(k, x.sh[q], tp.r[q])])
      rb == tp.rb[p]
  IN IF n = 2
       THEN [st |-> "ok", v |-> ring_rshift(k, x.sh[p], bits), comm |-> 0,
             bits |-> bits, r |-> 0, rc |-> 0, rb |-> 0]
       ELSE [st |-> "ok",
             v |-> IF p = 0 THEN ring_add(k, rb, ring_rshift(k, x_r, bits))
                   ELSE rb,
             comm |-> 1, bits |-> bits, r |-> tp.r[p], rc |-> 0, rb |-> rb]

\* TruncA::proc on rank p; tp is the truncation pair the Beaver source
\* deals when there are more than two parties
TruncA_proc(p, x, bits, tp) ==
  LET k == x.field
      x_r == allReduce(k, [q \in Parties |-> ring_sub(k, x.sh[q], tp.r[q])])
      rb == tp.rb[p]
  IN IF n = 2
       THEN [st |-> "ok", v |-> ring_arshift(k, x.sh[p], bits), comm |-> 0,
             bits |-> bits, r |-> 0, rc |-> 0, rb |-> 0]
       ELSE [st |-> "ok",
             v |-> IF p = 0 THEN ring_add(k, rb, ring_arshift(k, x_r, bits))
                   ELSE rb,
             comm |-> 1, bits |-> bits, r |-> tp.r[p], rc |-> 0, rb |-> rb]

\* TruncAPr::proc with c{k-1} added to the share of b on every rank
TruncAPr_proc_EveryRank(p, in, bits, tp) ==
  LET k == in.field
      x_plus_r == [q \in Parties |->
                     ring_add(k, IF q = 0 THEN ring_add(k, in.sh[q], Pow2(k - 2))
                                 ELSE in.sh[q],
                              tp.r[q])]
      c == allReduce(k, x_plus_r)
      ck_1 == ring_rshift(k, c, k - 1)
      rc == tp.rc[p]
      rb == tp.rb[p]
      b == (rb + ck_1 - 2 * ck_1 * rb) % Pow2(k)
      c_hat == ring_rshift(k, ring_lshift(k, c, 1), 1 + bits)
      y == IF p = 0
             THEN (c_hat - rc + ring_lshift(k, b, k - 1 - bits)
                   - Pow2(k - 2 - bits)) % Pow2(k)
             ELSE (0 - rc + ring_lshift(k, b, k - 1 - bits)) % Pow2(k)
  IN [st |-> "ok", v |-> y, comm |-> 1, bits |-> bits,
      r |-> tp.r[p], rc |-> rc, rb |-> rb]

\* TruncAPr::proc on rank p with the truncation triple tp
TruncAPr_proc(p, in, bits, tp) ==
  LET k == in.field
      x_plus_r == [q \in Parties |->
                     ring_add(k, IF q = 0 THEN ring_add(k, in.sh[q], Pow2(k - 2))
                                 ELSE in.sh[q],
                              tp.r[q])]
      c == allReduce(k, x_plus_r)
      ck_1 == ring_rshift(k, c, k - 1)
      rc == tp.rc[p]
      rb == tp.rb[p]
      b == IF p = 0 THEN (rb + ck_1 - 2 * ck_1 * rb) % Pow2(k)
           ELSE (rb + 0 - 2 * ck_1 * rb) % Pow2(k)
      c_hat == ring_rshift(k, ring_lshift(k, c, 1), 1 + bits)
      y == IF p = 0
             THEN (c_hat - rc + ring_lshift(k, b, k - 1 - bits)
                   - Pow2(k - 2 - bits)) % Pow2(k)
             ELSE (0 - rc + ring_lshift(k, b, k - 1 - bits)) % Pow2(k)
  IN [st |-> "ok", v |-> y, comm |-> 1, bits |-> bits,
      r |-> tp.r[p], rc |-> rc, rb |-> rb]

\* every party has run the truncation: outs[p] is what rank p returned
TruncFinish(c, outs) ==
  /\ call' = c
  /\ res' = outs
  /\ ncalls' = ncalls + 1
  /\ UNCHANGED <<n, novec, store, cache, prev, touched, hist>>

\* every party runs TruncA::proc on x; the kernel keeps no state, so a
\* behaviour is one invocation on a fresh input
TruncA(bits) ==
  /\ call = NoCall
  /\ LET k == store["x"].field
     IN IF n = 2
          THEN \E tp \in {BeaverTrunc(k, 0, bits, 0)} :
                 TruncFinish(CallOf("TruncA", "x", "x", 0),
                             [p \in Parties |-> TruncA_proc(p, Arg("x"), bits, tp)])
          ELSE \E t \in Seeds, r \in Ring(k) :
                 \E tp \in {BeaverTrunc(k, t, bits, r)} :
                   TruncFinish(CallOf("TruncA", "x", "x", t),
                               [p \in Parties |-> TruncA_proc(p, Arg("x"), bits, tp)])

\* every party runs TruncAPr::proc on x
TruncAPr(bits) ==
  /\ call = NoCall
  /\ LET k == store["x"].field
     IN \E t \in Seeds, r \in Ring(k) :
          \E tp \in {BeaverTruncPr(k, t, bits, r)} :
            TruncFinish(CallOf("TruncAPr", "x", "x", t),
                        [p \in Parties |-> TruncAPr_proc(p, Arg("x"), bits, tp)])

InitTrunc ==
  /\ n \in 2 .. MaxParties
  /\ novec = FALSE
  /\ \E v \in Ring(TruncBits), s \in Seeds :
       store = [i \in Ids |-> AShare(TruncBits, n, v, s)]
  /\ InitCommon

NextTrunc ==
  \/ \E bits \in TruncShifts(TruncBits) : TruncA(bits)
  \/ \E bits \in TruncShifts(TruncBits) : TruncAPr(bits)

SpecTrunc == InitTrunc /\ [][NextTrunc]_vars

\* two parties hold x = 100 as any pair of shares whose signed values sum to
\* 100 without wrapping
InitTruncA ==
  /\ n = 2
  /\ novec = FALSE
  /\ \E s0 \in Ring(TruncScenarioBits) :
       LET s1 == ring_sub(TruncScenarioBits, 100, s0)
       IN /\ Signed(TruncScenarioBits, s0) + Signed(TruncScenarioBits, s1) = 100
          /\ store = [i \in Ids |->
                        [field |-> TruncScenarioBits, ty |-> "A", owner |-> 0,
                         imag |-> "none",
                         sh |-> [p \in 0 .. 1 |-> IF p = 0 THEN s0 ELSE s1]]]
  /\ InitCommon

NextTruncA == \E bits \in TruncShifts(TruncScenarioBits) : TruncA(bits)

SpecTruncA == InitTruncA /\ [][NextTruncA]_vars

(* ------------------- the other two-operand kernels -------------------- *)
\* a kernel that ended in a fatal error after comm rounds of communication
Fatal(p, comm) ==
  [out |-> [st |-> "fatal", v |-> 0, comm |-> comm], cache |-> cache[p]]
\* a kernel that returned z without communication
Local(p, z) ==
  [out |-> [st |-> "ok", v |-> z, comm |-> 0], cache |-> cache[p]]

\* AddAP::proc with every rank adding rhs
AddAP_proc_EveryRank(p, lhs, rhs) ==
  IF SameField(lhs.field, rhs.field)
    THEN Local(p, ring_add(lhs.field, lhs.sh[p], rhs.sh[p]))
    ELSE Fatal(p, 0)

\* AddAP::proc on rank p (the operands hold one element each)
AddAP_proc(p, lhs, rhs) ==
  IF p = 0
    THEN IF SameField(lhs.field, rhs.field)
           THEN Local(p, ring_add(lhs.field, lhs.sh[p], rhs.sh[p]))
           ELSE Fatal(p, 0)
    ELSE Local(p, lhs.sh[p])

\* AddAA::proc on rank p
AddAA_proc(p, lhs, rhs) ==
  IF lhs.ty = rhs.ty /\ lhs.field = rhs.field
    THEN Local(p, ring_add(lhs.field, lhs.sh[p], rhs.sh[p]))
    ELSE Fatal(p, 0)

\* MulAP::proc on rank p
MulAP_proc(p, lhs, rhs) ==
  IF SameField(lhs.field, rhs.field)
    THEN Local(p, ring_mul(lhs.field, lhs.sh[p], rhs.sh[p]))
    ELSE Fatal(p, 0)

\* MatMulAP::proc on rank p, on 1x1 matrices
MatMulAP_proc(p, x, y) ==
  IF SameField(x.field, y.field)
    THEN Local(p, ring_mul(x.field, x.sh[p], y.sh[p]))
    ELSE Fatal(p, 0)

\* what MatMulAA::proc returns on rank p after MulOpen returned o
MatMulAA_after(p, k, ky, o) ==
  LET xb == ring_mul(k, o.x_a, o.b)
      ya == ring_mul(k, o.a, o.y_b)
      z == ring_add(k, ring_add(k, xb, ya), o.c)
      z0 == IF p = 0 THEN ring_add(k, z, ring_mul(k, o.x_a, o.y_b)) ELSE z
  IN MulResult(o, o.st = "ok" /\ SameField(ky, k), z0)

\* MatMulAA::proc on rank p, on 1x1 matrices
MatMulAA_proc(p, xv, yv, tr) ==
  MatMulAA_after(p, xv.field, yv.field, MulOpen(p, xv, yv, TRUE, tr))

\* yy of MulA1B::proc without the mask: the shares of y as they are
MaskedBit_NoMask(field, y) ==
  [id |-> "yy", field |-> field, sh |-> [q \in Parties |-> y.sh[q]]]

\* yy of MulA1B::proc: the low bit of every share of y
MaskedBit(field, y) ==
  [id |-> "yy", field |-> field,
   sh |-> [q \in Parties |-> ring_bitmask(field, y.sh[q], 0, 1)]]

\* xx of MulA1B::proc: (1 - 2*yy) * x, share by share
SignedBy(field, x, yy) ==
  [id |-> "xx", field |-> field,
   sh |-> [q \in Parties |->
             ring_mul(field, ring_sub(field, 1, ring_lshift(field, yy.sh[q], 1)),
                      x.sh[q])]]

\* what MulA1B::proc returns on rank p after MulOpen returned o
MulA1B_after(p, field, x, xx, yy, o) ==
  LET z1 == ring_add(field, ring_add(field, ring_mul(field, o.b, o.x_a),
                                     ring_mul(field, o.a, o.y_b)), o.c)
      z2 == ring_sub(field, z1, ring_mul(field, xx.sh[p], yy.sh[p]))
      z3 == IF p = 0 THEN ring_add(field, z2, ring_mul(field, o.x_a, o.y_b))
            ELSE z2
      z == ring_add(field, z3, ring_mul(field, x.sh[p], yy.sh[p]))
  IN MulResult(o, o.st = "ok", z)

\* MulA1B::proc from MulOpen on, xx and yy computed
MulA1B_open(p, x, xx, yy, tr) ==
  MulA1B_after(p, x.field, x, xx, yy, MulOpen(p, xx, yy, FALSE, tr))

\* MulA1B::proc once the fields are checked and the bit is masked
MulA1B_mul(p, x, yy, tr) ==
  MulA1B_open(p, x, SignedBy(x.field, x, yy), yy, tr)

\* MulA1B::proc on rank p: x an arithmetic share, y a share of one bit
MulA1B_proc(p, x, y, tr) ==
  IF x.field # y.field THEN Fatal(p, 0)
  ELSE MulA1B_mul(p, x, MaskedBit(x.field, y), tr)

\* Beaver::MulPriv: rank 0 holds (a0, c0), rank 1 holds (a1, c1) with
\* a0 * a1 = c0 + c1
BeaverMulPriv(k, t, a0, a1, c0) ==
  [a |-> [q \in Parties |->
            IF q = 0 THEN a0 ELSE IF q = 1 THEN a1 ELSE Prg(k, t, q)],
   c |-> [q \in Parties |->
            IF q = 0 THEN c0
            ELSE IF q = 1 THEN ring_sub(k, ring_mul(k, a0, a1), c0)
            ELSE Prg(k, t, n + q)]]

\* MulVVS::proc with rank 1 multiplying by a instead of -a
MulVVS_proc_NoNeg(p, x, y, mp) ==
  LET x_rank == x.owner
      y_rank == y.owner
      field == x.field
      InOf(q) == IF q = x_rank THEN x ELSE y
      \* rank q gets as far as sendAsync
      Sends(q) == /\ x_rank # y_rank
                  /\ q \in {x_rank, y_rank}
                  /\ SameField(field, InOf(q).field)
      a_x(q) == ring_add(field, mp.a[q], InOf(q).sh[q])
      prevRank == (p + n - 1) % n
      in == InOf(p).sh[p]
      a == mp.a[p]
      c == mp.c[p]
      tmp == a_x(prevRank)
      Out(st, comm, z) ==
        [out |-> [st |-> st, v |-> z, comm |-> comm, a |-> a, c |-> c],
         cache |-> cache[p]]
  IN IF ~Sends(p) THEN Out("fatal", 0, 0)
     ELSE IF ~Sends(prevRank) THEN Out("blocked", 1, 0)
     ELSE IF p = 0
       THEN Out("ok", 1, ring_add(field, ring_mul(field, tmp, in), c))
     ELSE IF p = 1
       THEN Out("ok", 1,
                ring_add(field, ring_mul(field, tmp, a), c))
     ELSE Out("fatal", 1, 0)

\* MulVVS::proc on rank p: x and y are private to x.owner and y.owner; a
\* rank is blocked when the message it waits for is never sent
MulVVS_proc(p, x, y, mp) ==
  LET x_rank == x.owner
      y_rank == y.owner
      field == x.field
      InOf(q) == IF q = x_rank THEN x ELSE y
      \* rank q gets as far as sendAsync
      Sends(q) == /\ x_rank # y_rank
                  /\ q \in {x_rank, y_rank}
                  /\ SameField(field, InOf(q).field)
      a_x(q) == ring_add(field, mp.a[q], InOf(q).sh[q])
      prevRank == (p + n - 1) % n
      in == InOf(p).sh[p]
      a == mp.a[p]
      c == mp.c[p]
      tmp == a_x(prevRank)
      Out(st, comm, z) ==
        [out |-> [st |-> st, v |-> z, comm |-> comm, a |-> a, c |-> c],
         cache |-> cache[p]]
  IN IF ~Sends(p) THEN Out("fatal", 0, 0)
     ELSE IF ~Sends(prevRank) THEN Out("blocked", 1, 0)
     ELSE IF p = 0
       THEN Out("ok", 1, ring_add(field, ring_mul(field, tmp, in), c))
     ELSE IF p = 1
       THEN Out("ok", 1,
                ring_add(field, ring_mul(field, tmp, ring_neg(field, a)), c))
     ELSE Out("fatal", 1, 0)

AddAP(x, y) ==
  /\ ncalls < MaxCalls /\ store[x].ty = "A" /\ store[y].ty = "P"
  /\ Finish(CallOf("AddAP", x, y, 0),
            [p \in Parties |-> AddAP_proc(p, Arg(x), Arg(y))])

AddAA(x, y) ==
  /\ ncalls < MaxCalls /\ store[x].ty = "A" /\ store[y].ty = "A"
  /\ Finish(CallOf("AddAA", x, y, 0),
            [p \in Parties |-> AddAA_proc(p, Arg(x), Arg(y))])

MulAP(x, y) ==
  /\ ncalls < MaxCalls /\ store[x].ty = "A" /\ store[y].ty = "P"
  /\ Finish(CallOf("MulAP", x, y, 0),
            [p \in Parties |-> MulAP_proc(p, Arg(x), Arg(y))])

MatMulAP(x, y) ==
  /\ ncalls < MaxCalls /\ store[x].ty = "A" /\ store[y].ty = "P"
  /\ Finish(CallOf("MatMulAP", x, y, 0),
            [p \in Parties |-> MatMulAP_proc(p, Arg(x), Arg(y))])

MatMulAA(x, y) ==
  /\ ncalls < MaxCalls /\ store[x].ty = "A" /\ store[y].ty = "A"
  /\ \E t \in Seeds :
       \E tr \in {BeaverMul(store[x].field, t, x, y, TRUE)} :
         \E outs \in {[p \in Parties |-> MatMulAA_proc(p, Arg(x), Arg(y), tr)]} :
           Finish(CallOf("MatMulAA", x, y, t), outs)

MulA1B(x, y) ==
  /\ ncalls < MaxCalls /\ store[x].ty = "A" /\ store[y].ty = "B"
  /\ \E t \in Seeds :
       \E tr \in {BeaverMul(store[x].field, t, "xx", "yy", FALSE)} :
         \E outs \in {[p \in Parties |-> MulA1B_proc(p, Arg(x), Arg(y), tr)]} :
           Finish(CallOf("MulA1B", x, y, t), outs)

\* the Beaver source draws a0, a1 and c0 from masks; the kernel keeps no
\* state, so a behaviour is one invocation on fresh inputs
MulVVS(x, y, masks) ==
  /\ call = NoCall /\ store[x].ty = "V" /\ store[y].ty = "V"
  /\ \E t \in Seeds, a0, a1, c0 \in masks :
       \E mp \in {BeaverMulPriv(store[x].field, IF n > 2 THEN t ELSE 0, a0, a1, c0)} :
         \E outs \in {[p \in Parties |-> MulVVS_proc(p, Arg(x), Arg(y), mp)]} :
           Finish(CallOf("MulVVS", x, y, IF n > 2 THEN t ELSE 0), outs)

(* ----------------- the private-multiplication specification ----------- *)
InitVVS ==
  /\ n \in 2 .. MaxParties
  /\ novec = FALSE
  /\ \E vx, vy \in Ring(VvsBits), ox, oy \in Parties, s \in Seeds :
       store = [i \in Ids |->
                  IF i = "x" THEN PrivValue(VvsBits, ox, vx, s)
                  ELSE PrivValue(VvsBits, oy, vy, s + 1)]
  /\ InitCommon

NextVVS == MulVVS("x", "y", Ring(VvsBits))

SpecVVS == InitVVS /\ [][NextVVS]_vars

(* ------------------- the field-mismatch specification ----------------- *)
\* the operands (x, y) of a kernel of operand kinds (A, kind) or (V, V),
\* x of a fx-bit field and y of a fy-bit field
OperandsOf(kind, fx, fy, ox, oy, s) ==
  [i \in Ids |->
     IF i = "x"
       THEN IF kind = "V" THEN PrivValue(fx, ox, Prg(fx, s, 1), s)
            ELSE AShare(fx, n, Prg(fx, s, 1), s)
     ELSE IF kind = "V" THEN PrivValue(fy, oy, Prg(fy, s, 2), s + 1)
     ELSE IF kind = "P" THEN PubValue(fy, Prg(fy, s, 2))
     ELSE [AShare(fy, n, Prg(fy, s, 2), s + 1) EXCEPT !.ty = kind]]

InitField ==
  /\ n \in 2 .. MaxParties
  /\ novec \in BOOLEAN
  /\ \E kind \in {"A", "P", "B", "V"}, fx, fy \in {NarrowBits, WideBits},
        ox, oy \in Parties, s \in Seeds :
       store = OperandsOf(kind, fx, fy, ox, oy, s)
  /\ InitCommon

\* caching is configured before the kernels run
NextField ==
  \/ AddAP("x", "y")
  \/ AddAA("x", "y")
  \/ MulAP("x", "y")
  \/ MulAA("x", "y")
  \/ MatMulAP("x", "y")
  \/ MatMulAA("x", "y")
  \/ MulA1B("x", "y")
  \/ MulVVS("x", "y", 0 .. 1)
  \/ \E v \in Ids, e \in BOOLEAN : call = NoCall /\ SetBeaverCache(v, e)

SpecField == InitField /\ [][NextField]_vars

(* ------------------- the matrix-multiplication specification ---------- *)
\* a matrix is [r, c, e]: rows, columns and the elements by <<row, column>>
Cells(r, c) == (1 .. r) \X (1 .. c)
\* the position of a cell in a buffer of at most MaxDim x MaxDim elements
CellIx(ij) == (ij[1] - 1) * MaxDim + (ij[2] - 1)

\* NdArrayRef::transpose: the same storage seen with rows and columns swapped
transpose(M) ==
  [r |-> M.c, c |-> M.r, e |-> [ij \in Cells(M.c, M.r) |-> M.e[<<ij[2], ij[1]>>]]]

\* what a ring primitive yields when its shape precondition fails
NoMat == [r |-> 0, c |-> 0, e |-> [ij \in Cells(0, 0) |-> 0]]

\* ring_add / ring_sub on arrays: elementwise, the shapes must agree
ring_add_m(k, A, B) ==
  IF A.r = B.r /\ A.c = B.c
    THEN [r |-> A.r, c |-> A.c,
          e |-> [ij \in Cells(A.r, A.c) |-> ring_add(k, A.e[ij], B.e[ij])]]
    ELSE NoMat
ring_sub_m(k, A, B) ==
  IF A.r = B.r /\ A.c = B.c
    THEN [r |-> A.r, c |-> A.c,
          e |-> [ij \in Cells(A.r, A.c) |-> ring_sub(k, A.e[ij], B.e[ij])]]
    ELSE NoMat

RECURSIVE DotUpTo(_, _, _, _, _, _)
\* A[i,1]*B[1,j] + ... + A[i,l]*B[l,j] in the k-bit ring
DotUpTo(k, A, B, i, j, l) ==
  IF l = 0 THEN 0
  ELSE ring_add(k, DotUpTo(k, A, B, i, j, l - 1),
                ring_mul(k, A.e[<<i, l>>], B.e[<<l, j>>]))

\* ring_mmul: the matrix product A dot B, columns of A against rows of B
ring_mmul(k, A, B) ==
  IF A.c = B.r /\ A.r > 0
    THEN [r |-> A.r, c |-> B.c,
          e |-> [ij \in Cells(A.r, B.c) |-> DotUpTo(k, A, B, ij[1], ij[2], A.c)]]
    ELSE NoMat

\* Communicator::allReduce(ReduceOp::ADD, ...) on arrays of one shape
allReduce_m(k, contrib) ==
  [r |-> contrib[0].r, c |-> contrib[0].c,
   e |-> [ij \in Cells(contrib[0].r, contrib[0].c) |->
            allReduce(k, [q \in Parties |-> contrib[q].e[ij]])]]

\* the operand a kernel receives: the storage id seen plainly or transposed
View(id, t) ==
  [id |-> id, view |-> t, field |-> store[id].field, ty |-> store[id].ty,
   sh |-> [q \in Parties |->
             IF t THEN transpose(store[id].sh[q]) ELSE store[id].sh[q]]]

\* NdArrayRef::operator==: the same storage seen the same way
SameArray(xv, yv) == xv.id = yv.id /\ xv.view = yv.view

\* x_cache and y_cache as MulOpen holds them before Beaver::Dot; the cache is
\* keyed by the storage behind the operand
XCacheDot(p, xv) == GetCache(cache[p], xv.id, TRUE)
YCacheDot(p, xv, yv) ==
  LET xc == XCacheDot(p, xv)
      yc == GetCache(cache[p], yv.id, TRUE)
  IN IF SameArray(xv, yv) /\ xc.enabled /\ xc.status = "Init"
       THEN [yc EXCEPT !.enabled = FALSE]
       ELSE yc

\* the r x c mask share of rank q, element by element as MaskShare deals it
MaskMat(k, t, off, q, r, c, passed, d) ==
  [r |-> r, c |-> c,
   e |-> [ij \in Cells(r, c) |->
            MaskShare(k, t, off + n * CellIx(ij), q, passed,
                      [d EXCEPT !.ctr = d.ctr + n * CellIx(ij)])]]

\* Beaver::Dot(field, m, n, k): shares (a, b, c) of all ranks, a shaped as
\* x, b as y, with (sum a) dot (sum b) = sum c; the last rank holds the
\* adjustment
BeaverDot(k, t, xv, yv) ==
  LET m == xv.sh[0].r
      kk == xv.sh[0].c
      nn == yv.sh[0].c
      offB == n * MaxDim * MaxDim
      a == [q \in Parties |->
              LET xc == XCacheDot(q, xv)
              IN MaskMat(k, t, 0, q, m, kk, xc.enabled, xc)]
      b == [q \in Parties |->
              LET yc == YCacheDot(q, xv, yv)
              IN MaskMat(k, t, offB, q, kk, nn, yc.enabled, yc)]
      ch == [q \in Parties |->
               [r |-> m, c |-> nn,
                e |-> [ij \in Cells(m, nn) |->
                         Prg(k, t, 2 * offB + q + n * CellIx(ij))]]]
      ab == ring_mmul(k, allReduce_m(k, a), allReduce_m(k, b))
      rest == [r |-> m, c |-> nn,
               e |-> [ij \in Cells(m, nn) |->
                        SumUpTo(k, [q \in Parties |-> ch[q].e[ij]], n - 2)]]
  IN [seed |-> t, a |-> a, b |-> b,
      c |-> [q \in Parties |->
               IF q < n - 1 THEN ch[q] ELSE ring_sub_m(k, ab, rest)]]

\* MulOpen(x, y, mmul = true) from Beaver::Dot on: the triple shares, the
\* opened x-a and y-b, the all-reduce calls, the identities SetCache was
\* called for, in order, and the party's cache afterwards
MulOpenDotFrom(p, xv, yv, tr, x_cache, y_cache) ==
  LET k == xv.field
      offB == n * MaxDim * MaxDim
      x_desc == DescOut(tr.seed, 0, x_cache.enabled, x_cache)
      y_desc == DescOut(tr.seed, offB, y_cache.enabled, y_cache)
      x_hit_cache == x_desc.status # "Init"
      y_hit_cache == y_desc.status # "Init"
      oneByOne == novec \/ x_hit_cache \/ y_hit_cache
      x_a == IF x_hit_cache THEN x_cache.open
             ELSE allReduce_m(k, [q \in Parties |->
                                    ring_sub_m(k, xv.sh[q], tr.a[q])])
      y_b == IF y_hit_cache THEN y_cache.open
             ELSE allReduce_m(k, [q \in Parties |->
                                    ring_sub_m(k, yv.sh[q], tr.b[q])])
      x_set == x_cache.enabled /\ x_desc.status = "Init"
      y_set == y_cache.enabled /\ y_desc.status = "Init"
  IN [st |-> "ok", a |-> tr.a[p], b |-> tr.b[p], c |-> tr.c[p],
      x_a |-> x_a, y_b |-> y_b, x_hit |-> x_hit_cache, y_hit |-> y_hit_cache,
      comm |-> OpenRounds(oneByOne, x_hit_cache, y_hit_cache, FALSE),
      sets |-> (IF x_set THEN <<xv.id>> ELSE <<>>)
                 \o (IF y_set THEN <<yv.id>> ELSE <<>>),
      cache |-> StoreOpened(cache[p], xv.id, yv.id, TRUE, x_cache, x_desc,
                            x_a, y_cache, y_desc, y_b)]

\* MatMulAA::proc after MulOpen, with the operands of every product swapped
MatMulAA_share_Swapped(p, k, o) ==
  LET z == ring_add_m(k, ring_add_m(k, ring_mmul(k, o.b, o.x_a),
                                    ring_mmul(k, o.y_b, o.a)), o.c)
  IN IF p = 0 THEN ring_add_m(k, z, ring_mmul(k, o.y_b, o.x_a)) ELSE z

\* MatMulAA::proc after MulOpen returned o: the share of rank p
MatMulAA_share(p, k, o) ==
  LET z == ring_add_m(k, ring_add_m(k, ring_mmul(k, o.x_a, o.b),
                                    ring_mmul(k, o.a, o.y_b)), o.c)
  IN IF p = 0 THEN ring_add_m(k, z, ring_mmul(k, o.x_a, o.y_b)) ELSE z

\* what MatMulAA::proc returns on rank p with the result share z
MatMulAA_result(o, z) ==
  [out |-> [st |-> IF z.r > 0 THEN "ok" ELSE "fatal", v |-> z, comm |-> o.comm,
            a |-> o.a, b |-> o.b, c |-> o.c, x_a |-> o.x_a, y_b |-> o.y_b,
            x_hit |-> o.x_hit, y_hit |-> o.y_hit, sets |-> o.sets],
   cache |-> o.cache]

\* MatMulAA::proc on rank p from MulOpen's return on
MatMulAA_combine(p, k, o) == MatMulAA_result(o, MatMulAA_share(p, k, o))

\* MatMulAA::proc on rank p on matrices: MulOpen enforces the inner
\* dimensions before it asks for a triple
MatMulAA_dot(p, xv, yv, tr) ==
  IF xv.sh[p].c # yv.sh[p].r
    THEN [out |-> [st |-> "fatal", v |-> NoMat, comm |-> 0, sets |-> <<>>],
          cache |-> cache[p]]
    ELSE MatMulAA_combine(p, xv.field,
           MulOpenDotFrom(p, xv, yv, tr, XCacheDot(p, xv), YCacheDot(p, xv, yv)))

\* every party runs MatMulAA::proc on the views (x, xt) and (y, yt); the
\* replay of a dot opening is the cache's business, so a behaviour is one
\* invocation
MatMulAAView(x, xt, y, yt) ==
  /\ call = NoCall
  /\ \E t \in Seeds :
       \E tr \in {IF View(x, xt).sh[0].c = View(y, yt).sh[0].r
                    THEN BeaverDot(store[x].field, t, View(x, xt), View(y, yt))
                    ELSE [seed |-> t]} :
         \E outs \in {[p \in Parties |->
                         MatMulAA_dot(p, View(x, xt), View(y, yt), tr)]} :
           Finish(CallOf("MatMulAA", x, y, t) @@ [xt |-> xt, yt |-> yt], outs)

\* an arithmetic sharing of an r x c matrix among m parties: the shares come
\* from stream s, v is added to the first element of rank 0
MatShare(k, m, r, c, v, s) ==
  [field |-> k, ty |-> "A", owner |-> 0, imag |-> "none",
   sh |-> [p \in 0 .. (m - 1) |->
             [r |-> r, c |-> c,
              e |-> [ij \in Cells(r, c) |->
                       ring_add(k, Prg(k, s, p + m * CellIx(ij)),
                                IF p = 0 /\ CellIx(ij) = 0 THEN v ELSE 0)]]]]

InitDot ==
  /\ n \in 2 .. MaxParties
  /\ novec \in BOOLEAN
  /\ \E m, kk, ky, nn \in 1 .. MaxDim, v \in Ring(DotBits), s \in Seeds :
       store = [i \in Ids |->
                  IF i = "x" THEN MatShare(DotBits, n, m, kk, v, s)
                  ELSE MatShare(DotBits, n, ky, nn, v + 1, s + 1)]
  /\ InitCommon

\* x dot y, x transposed dot x, x dot x; caching is configured before
NextDot ==
  \/ MatMulAAView("x", FALSE, "y", FALSE)
  \/ MatMulAAView("x", TRUE, "x", FALSE)
  \/ MatMulAAView("x", FALSE, "x", FALSE)
  \/ \E v \in Ids, e \in BOOLEAN : call = NoCall /\ SetBeaverCache(v, e)

SpecDot == InitDot /\ [][NextDot]_vars

(* ------------- the arithmetic-by-bit multiplication specification ----- *)
\* two parties hold any shares (x0, x1) of x and any ring elements (y0, y1)
\* as their shares of the bit
InitA1B ==
  /\ n = 2
  /\ novec \in BOOLEAN
  /\ \E x0, x1, y0, y1 \in Ring(A1BBits) :
       store = [i \in Ids |->
                  [field |-> A1BBits, ty |-> IF i = "x" THEN "A" ELSE "B",
                   owner |-> 0, imag |-> "none",
                   sh |-> IF i = "x" THEN [p \in 0 .. 1 |-> IF p = 0 THEN x0 ELSE x1]
                          ELSE [p \in 0 .. 1 |-> IF p = 0 THEN y0 ELSE y1]]]
  /\ InitCommon

\* xx and yy are temporaries of the kernel, never cached: a behaviour is one
\* invocation
NextA1B == call = NoCall /\ MulA1B("x", "y")

SpecA1B == InitA1B /\ [][NextA1B]_vars

(* ------------------ the two-party truncation specification ------------ *)
\* TruncAPr2::kBitsLeftOut: the input is below L/4 = 2^(k - kBitsLeftOut)
kBitsLeftOut == 2

\* getTruncField: the narrowest field that holds bits bits (0: unsupported)
getTruncField(bits) ==
  IF bits <= TruncNarrowBits THEN TruncNarrowBits
  ELSE IF bits <= TruncWideBits THEN TruncWideBits
  ELSE 0

\* wrap_mulvvs: both operands private, to different owners, then MulVVS
wrap_mulvvs(p, x, y, mp) ==
  IF x.ty = "V" /\ y.ty = "V" /\ x.owner # y.owner
    THEN MulVVS_proc(p, x, y, mp).out
    ELSE [st |-> "fatal", v |-> 0, comm |-> 0, a |-> mp.a[p], c |-> mp.c[p]]

\* in_star of computeMW with rank 0 comparing its share as rank 1 does
in_star_NoOffset(q, k, in) ==
  LET L_4 == ring_lshift(k, 1, k - kBitsLeftOut)
      L_2 == ring_lshift(k, L_4, 1)
  IN IF in >= L_2 THEN 1 ELSE 0

\* in_star of computeMW on rank q: the share in classified against L/2
in_star(q, k, in) ==
  LET L_4 == ring_lshift(k, 1, k - kBitsLeftOut)
      L_2 == ring_lshift(k, L_4, 1)
  IN IF q = 0 THEN (IF ring_sub(k, in, L_4) >= L_2 THEN 1 ELSE 0)
     ELSE (IF in >= L_2 THEN 1 ELSE 0)

\* computeMW once MulVVS returned m: rank 0 adds 1 - (in < L/4), in the
\* truncation ring of w bits
computeMW_after(p, k, w, in, m) ==
  LET L_4 == ring_lshift(k, 1, k - kBitsLeftOut)
      one == IF in < L_4 THEN 1 ELSE 0
  IN [st |-> m.st, comm |-> m.comm, a |-> m.a, c |-> m.c,
      mw |-> IF m.st # "ok" THEN 0
             ELSE IF p = 0 THEN ring_add(w, m.v, ring_sub(w, 1, one))
             ELSE m.v]

\* computeMW on rank p: the indicator bits are private values of the
\* truncation ring, x of rank 0 and y of rank 1, multiplied by MulVVS
computeMW(p, in, bits, mp) ==
  LET k == in.field
      w == getTruncField(bits)
      x == [id |-> "in_star", field |-> w, ty |-> "V", owner |-> 0,
            sh |-> [q \in Parties |->
                      IF q = 0 THEN in_star(0, k, in.sh[0])
                      ELSE makeConstantArrayRef]]
      y == [id |-> "in_star", field |-> w, ty |-> "V", owner |-> 1,
            sh |-> [q \in Parties |->
                      IF q = 1 THEN in_star(1, k, in.sh[1])
                      ELSE makeConstantArrayRef]]
  IN IF p \notin {0, 1}
       THEN [st |-> "fatal", comm |-> 0, a |-> 0, c |-> 0, mw |-> 0]
       ELSE computeMW_after(p, k, w, in.sh[p], wrap_mulvvs(p, x, y, mp))

\* TruncAPr2::proc once computeMW returned m
TruncAPr2_after(p, k, in, bits, m) ==
  [st |-> m.st, comm |-> m.comm, bits |-> bits, mw |-> m.mw,
   a |-> m.a, c |-> m.c,
   v |-> IF m.st # "ok" THEN 0
         ELSE ring_add(k, ring_sub(k, ring_rshift(k, in, bits),
                                   ring_mul(k, m.mw % Pow2(k),
                                            ring_lshift(k, 1, k - bits))),
                       p)]

\* TruncAPr2::proc on rank p: only ranks 0 and 1 may run it
TruncAPr2_proc(p, in, bits, mp) ==
  IF p \notin {0, 1}
    THEN [st |-> "fatal", comm |-> 0, bits |-> bits, mw |-> 0, a |-> 0,
          c |-> 0, v |-> 0]
    ELSE TruncAPr2_after(p, in.field, in.sh[p], bits, computeMW(p, in, bits, mp))

\* every party runs TruncAPr2::proc on x; the Beaver source draws the
\* private-multiplication pair of the truncation ring from stream t
TruncAPr2(bits) ==
  /\ call = NoCall
  /\ LET w == getTruncField(bits)
     IN \E t \in Seeds :
          \E mp \in {BeaverMulPriv(w, t, Prg(w, t, 0), Prg(w, t, 1), Prg(w, t, 2))} :
            TruncFinish(CallOf("TruncAPr2", "x", "x", t),
                        [p \in Parties |-> TruncAPr2_proc(p, Arg("x"), bits, mp)])

\* ranks 0 and 1 hold any pair of shares of a narrow or of a wide field
InitTrunc2 ==
  /\ n \in 2 .. MaxParties
  /\ novec = FALSE
  /\ \E k \in {TruncNarrowBits, TruncWideBits} :
       \E x0, x1 \in Ring(k) :
         store = [i \in Ids |->
                    [field |-> k, ty |-> "A", owner |-> 0, imag |-> "none",
                     sh |-> [p \in Parties |->
                               IF p = 0 THEN x0 ELSE IF p = 1 THEN x1 ELSE 0]]]
  /\ InitCommon

NextTrunc2 == \E bits \in 1 .. (store["x"].field - 2) : TruncAPr2(bits)

SpecTrunc2 == InitTrunc2 /\ [][NextTrunc2]_vars

(* ---------------------- the random-sharing specification -------------- *)
\* RandA::proc on rank p: the party's private random element r, shifted
\* right by two bits
RandA_proc(p, field, r) ==
  [st |-> "ok", v |-> ring_rshift(field, r, 2), comm |-> 0]

\* every party runs RandA::proc; genPriv gives every party an element of
\* its own, unknown to the others
RandA ==
  /\ call = NoCall
  /\ \E r \in [Parties -> Ring(store["x"].field)] :
       TruncFinish(CallOf("RandA", "x", "x", 0),
                   [p \in Parties |-> RandA_proc(p, store["x"].field, r[p])])

InitRand ==
  /\ n \in 2 .. MaxParties
  /\ novec = FALSE
  /\ store = [i \in Ids |-> AShare(RandBits, n, 0, 0)]
  /\ InitCommon

NextRand == RandA

SpecRand == InitRand /\ [][NextRand]_vars

(* -------------------------- the addition specification ---------------- *)
\* x is an arithmetic sharing and y a public value of one field
InitAdd ==
  /\ n \in 2 .. MaxParties
  /\ novec = FALSE
  /\ \E vx, vp \in Ring(AddBits), s \in Seeds :
       store = [i \in Ids |->
                  IF i = "x" THEN AShare(AddBits, n, vx, s)
                  ELSE PubValue(AddBits, vp)]
  /\ InitCommon

\* the kernel keeps no state: a behaviour is one invocation
NextAdd == call = NoCall /\ AddAP("x", "y")

SpecAdd == InitAdd /\ [][NextAdd]_vars

(* ----------------------- the replay-cache specification --------------- *)
\* x is an arithmetic sharing; y is one too, or the sharing of a bit
InitCache ==
  /\ n \in 2 .. MaxParties
  /\ novec \in BOOLEAN
  /\ \E v \in Ring(MulBits), kind \in {"A", "B"} :
       store = [i \in Ids |->
                  IF i = "x" THEN AShare(MulBits, n, v, 0)
                  ELSE [AShare(MulBits, n, v + 1, 1) EXCEPT !.ty = kind]]
  /\ InitCommon

\* the four kernels built on MulOpen, against x, and the cache control
NextCache ==
  \/ \E y \in Ids : store[y].ty = "A" /\ MulAA("x", y)
  \/ store["y"].ty = "A" /\ MulAA("y", "x")
  \/ \E y \in Ids : MatMulAA("x", y)
  \/ MulA1B("x", "y")
  \/ SquareA("x")
  \/ \E v \in Ids, e \in BOOLEAN : SetBeaverCache(v, e)

SpecCache == InitCache /\ [][NextCache]_vars

(* -------------------- the synchronisation specification --------------- *)
\* the all-reduce calls MulOpen's opening step enters, by their tags, in
\* order, given the party's two hit decisions
MulOpenCollectives(x_hit_cache, y_hit_cache) ==
  IF novec \/ x_hit_cache \/ y_hit_cache
    THEN (IF x_hit_cache THEN <<>> ELSE <<"open(x-a)">>)
         \o (IF y_hit_cache THEN <<>> ELSE <<"open(y-b)">>)
    ELSE <<"open(x-a,y-b)">>

\* the collectives rank p entered in the last invocation, in order
Collectives(p) ==
  IF res[p].st # "ok" THEN <<>>
  ELSE IF call.op \in {"MulAA", "MatMulAA", "MulA1B"}
    THEN MulOpenCollectives(res[p].x_hit, res[p].y_hit)
  ELSE IF call.op = "SquareA"
    THEN IF res[p].x_hit THEN <<>> ELSE <<"open(x-a)">>
  ELSE IF call.op = "A2P" THEN <<"a2p">>
  ELSE IF call.op = "A2V" THEN <<"a2v">>
  ELSE IF call.op = "TruncA" THEN IF n = 2 THEN <<>> ELSE <<"trunc_a">>
  ELSE IF call.op = "TruncAPr" THEN <<"trunc_a_pr">>
  ELSE <<>>

\* every party runs the same kernel on the same operands: the kernels built
\* on MulOpen, SquareA, the two revealing conversions, the two truncations
\* of any world size, and the cache control
NextSync ==
  \/ \E y \in Ids : store[y].ty = "A" /\ MulAA("x", y)
  \/ store["y"].ty = "A" /\ MulAA("y", "x")
  \/ \E y \in Ids : MatMulAA("x", y)
  \/ MulA1B("x", "y")
  \/ SquareA("x")
  \/ hist = <<>> /\ ncalls < MaxCalls /\ A2P
  \/ hist = <<>> /\ ncalls < MaxCalls /\ A2V
  \/ \E bits \in TruncShifts(MulBits) : TruncA(bits)
  \/ \E bits \in TruncShifts(MulBits) : TruncAPr(bits)
  \/ \E v \in Ids, e \in BOOLEAN : SetBeaverCache(v, e)

SpecSync == InitCache /\ [][NextSync]_vars

(* ----------------------- the session of all kernels ------------------- *)
\* NegateA::proc on rank p
NegateA_proc(p, in) == Local(p, ring_neg(in.field, in.sh[p]))

\* LShiftA::proc on rank p
LShiftA_proc(p, in, bits) == Local(p, ring_lshift(in.field, in.sh[p], bits))

NegateA(x) ==
  /\ ncalls < MaxCalls /\ store[x].ty = "A"
  /\ Finish(CallOf("NegateA", x, x, 0),
            [p \in Parties |-> NegateA_proc(p, Arg(x))])

LShiftA(x, bits) ==
  /\ ncalls < MaxCalls /\ store[x].ty = "A"
  /\ Finish(CallOf("LShiftA", x, x, 0),
            [p \in Parties |-> LShiftA_proc(p, Arg(x), bits)])

\* the operands: x an arithmetic sharing with y a sharing, a public value
\* or the sharing of a bit; x and y private to ranks 0 and 1; or both
\* public.  Two sharings may be the real and imaginary part of one value.
InitFrame ==
  /\ n \in 2 .. MaxParties
  /\ novec = FALSE
  /\ \/ \E kind \in {"A", "P", "B", "V"} :
          store = OperandsOf(kind, FrameBits, FrameBits, 0, 1, 0)
     \/ store = [OperandsOf("A", FrameBits, FrameBits, 0, 1, 0)
                   EXCEPT !["x"].imag = "y"]
     \/ store = [i \in Ids |-> PubValue(FrameBits, Prg(FrameBits, 0, 1))]
  /\ InitCommon

\* every kernel of the protocol, on x or on (x, y), and the cache control
NextFrame ==
  \/ RandA
  \/ hist = <<>> /\ ncalls < MaxCalls /\ P2A
  \/ hist = <<>> /\ ncalls < MaxCalls /\ A2P
  \/ hist = <<>> /\ ncalls < MaxCalls /\ A2V
  \/ hist = <<>> /\ ncalls < MaxCalls /\ V2A
  \/ NegateA("x")
  \/ AddAP("x", "y")
  \/ AddAA("x", "y")
  \/ MulAP("x", "y")
  \/ MatMulAP("x", "y")
  \/ \E bits \in 0 .. (FrameBits - 1) : LShiftA("x", bits)
  \/ MulVVS("x", "y", 0 .. 1)
  \/ store["x"].ty = "A" /\ \E bits \in TruncShifts(FrameBits) : TruncA(bits)
  \/ store["x"].ty = "A" /\ \E bits \in TruncShifts(FrameBits) : TruncAPr(bits)
  \/ store["x"].ty = "A" /\ \E bits \in 1 .. (FrameBits - 2) : TruncAPr2(bits)
  \/ store["x"].ty = "A" /\ store["y"].ty = "A" /\ \E y \in Ids : MulAA("x", y)
  \/ MatMulAA("x", "y")
  \/ MulA1B("x", "y")
  \/ store["x"].ty = "A" /\ SquareA("x")
  \/ \E v \in Ids, e \in BOOLEAN : SetBeaverCache(v, e)

SpecFrame == InitFrame /\ [][NextFrame]_vars

(* ------------------------------ the claims ----------------------------- *)
\* the secret an arithmetic sharing represents
Plain(id) == allReduce(store[id].field, store[id].sh)
\* the value the shares returned by the last invocation reconstruct to
Recon == allReduce(store[call.x].field, [p \in Parties |-> res[p].v])
\* the Beaver masks of the last multiplication
MaskA == allReduce(store[call.x].field, [p \in Parties |-> res[p].a])
MaskB == allReduce(store[call.x].field, [p \in Parties |-> res[p].b])

\* C1: MulAA with no cache entry in use: every rank returns
\* z_i = c_i + X*b_i + Y*a_i (rank 0 adds X*Y) with X = open(x-a) and
\* Y = open(y-b), and the returned shares sum to x*y mod 2^k; the shares
\* (3,4) and (2,3) of the two-party scenario reconstruct 35.
C1_MulAACorrect ==
  (call.op = "MulAA" /\ ~call.xen /\ ~call.yen) =>
    LET k == store[call.x].field
        X == ring_sub(k, Plain(call.x), MaskA)
        Y == ring_sub(k, Plain(call.y), MaskB)
    IN /\ \A p \in Parties :
            /\ res[p].st = "ok"
            /\ res[p].x_a = X /\ res[p].y_b = Y
            /\ res[p].v = (res[p].c + X * res[p].b + Y * res[p].a
                            + (IF p = 0 THEN X * Y ELSE 0)) % Pow2(k)
       /\ Recon = ring_mul(k, Plain(call.x), Plain(call.y))
       /\ (store = ScenarioStore /\ call.x = "x" /\ call.y = "y") => Recon = 35

\* the two-party scenario multiplied x by y, and three parties multiplied
\* two different operands to a non-zero product
C1_Witness ==
  /\ call.op = "MulAA" /\ ~call.xen /\ ~call.yen
  /\ store = ScenarioStore /\ call.x = "x" /\ call.y = "y"
  /\ Recon = 35 /\ res[0].x_a # 0 /\ res[0].y_b # 0

\* the last invocation ran with caching on for one of its operands
CachedCall == call.xen \/ call.yen

\* C2: with caching enabled on an operand, every MulAA of a sequence of
\* calls against it (the other operand cached or not, the same or not)
\* reconstructs to x*y mod 2^k, the result of the run without caching.
C2_CacheTransparent ==
  (call.op = "MulAA" /\ CachedCall) =>
    /\ \A p \in Parties : res[p].st = "ok"
    /\ Recon = ring_mul(store[call.x].field, Plain(call.x), Plain(call.y))

\* a second multiplication took the opening of its first operand from the
\* cache, opened the other operand and returned a non-zero product
C2_Witness ==
  /\ call.op = "MulAA" /\ prev.op = "MulAA" /\ call.xen /\ ~call.ctl
  /\ call.x # call.y /\ res[0].x_hit /\ ~res[0].y_hit
  /\ Recon # 0

\* the last two invocations are the same multiplication, the first of them
\* ran with caching enabled for an operand not opened before, and
\* SetBeaverCache did not run in between
SameMulTwice ==
  /\ call.op = "MulAA" /\ prev.op = "MulAA"
  /\ call.x = prev.x /\ call.y = prev.y
  /\ ~call.ctl
  /\ \/ prev.xen /\ ~prev.xhit
     \/ prev.yen /\ ~prev.yhit

\* C3 as claimed: the second of the two invocations issues strictly fewer
\* all-reduce calls than the first, in every configuration.
C3_StrictlyFewerRounds ==
  SameMulTwice => \A p \in Parties : res[p].comm < prev.comm

\* C3 as amended: the second invocation takes every opening the first one
\* cached from the cache and never issues more all-reduce calls than the
\* first; it issues strictly fewer exactly when vectorized opening is
\* disabled or both operands hit the cache, and with vectorized opening
\* enabled and the other operand not cached both issue one all-reduce.
C3_FewerOrBatched ==
  SameMulTwice =>
    \A p \in Parties :
      /\ (prev.xen => res[p].x_hit) /\ (prev.yen => res[p].y_hit)
      /\ res[p].comm <= prev.comm
      /\ (res[p].comm < prev.comm) <=> (novec \/ (res[p].x_hit /\ res[p].y_hit))
      /\ (~novec /\ ~(res[p].x_hit /\ res[p].y_hit)) =>
           (res[p].comm = 1 /\ prev.comm = 1)

\* the same multiplication ran twice with vectorized opening enabled and
\* only the first operand cached
C3_Witness ==
  /\ SameMulTwice /\ ~novec /\ call.x # call.y
  /\ prev.xen /\ ~prev.yen /\ res[0].x_hit /\ ~res[0].y_hit
  /\ res[0].comm = 1

\* the truncation triple of the last TruncAPr: rc shares
\* (r mod 2^(k-1)) >> bits and rb shares bit k-1 of r
TripleOk ==
  LET k == store["x"].field
      r == allReduce(k, [p \in Parties |-> res[p].r])
  IN /\ allReduce(k, [p \in Parties |-> res[p].rc])
          = (r % Pow2(k - 1)) \div Pow2(res[0].bits)
     /\ allReduce(k, [p \in Parties |-> res[p].rb]) = r \div Pow2(k - 1)

\* the signed secret of the operand and the signed value returned
SignedPlain == Signed(store["x"].field, Plain("x"))
SignedRecon == Signed(store["x"].field, Recon)

\* C4: TruncAPr, for every number of parties, every x with |x| < 2^(k-2),
\* every sharing of x, every bits < k-2 and every well-formed truncation
\* triple, returns shares that reconstruct to v with |v - (x >> bits)| <= 1.
C4_TruncPrWithinOne ==
  (/\ call.op = "TruncAPr"
   /\ SignedPlain < Pow2(store["x"].field - 2)
   /\ 0 - SignedPlain < Pow2(store["x"].field - 2)
   /\ res[0].bits < store["x"].field - 2
   /\ TripleOk) =>
    LET e == SignedPlain \div Pow2(res[0].bits)
    IN /\ \A p \in Parties : res[p].st = "ok"
       /\ SignedRecon - e <= 1
       /\ e - SignedRecon <= 1

\* three parties truncated a negative x by two bits with a triple whose r
\* has the top bit set, and the result is off by exactly one
C4_Witness ==
  /\ call.op = "TruncAPr" /\ n = 3 /\ res[0].bits = 2 /\ TripleOk
  /\ SignedPlain < 0 /\ 0 - SignedPlain < Pow2(store["x"].field - 2)
  /\ allReduce(store["x"].field, [p \in Parties |-> res[p].rb]) = 1
  /\ SignedRecon - (SignedPlain \div Pow2(2)) = 1

\* two parties truncated x = 100 by two bits
TruncScenario ==
  /\ call.op = "TruncA" /\ n = 2 /\ res[0].bits = 2
  /\ store["x"].field = TruncScenarioBits /\ SignedPlain = 100

\* C9 as claimed: the truncated shares reconstruct to exactly 25 for every
\* pair of shares.
C9_TruncExact == TruncScenario => SignedRecon = 25

\* C9 as amended: the truncated shares reconstruct to 25 or to 24, that is
\* to within one unit of 100 >> 2, for every pair of shares.
C9_TruncWithinOne == TruncScenario => SignedRecon \in {24, 25}

\* the shares (1, 99) were truncated to (0, 24)
C9_Witness ==
  /\ TruncScenario /\ store["x"].sh[0] = 1
  /\ res[0].v = 0 /\ res[1].v = 24 /\ SignedRecon = 24

\* the x and y of a MulVVS, the values their owners hold
PrivX == store["x"].sh[store["x"].owner]
PrivY == store["y"].sh[store["y"].owner]

\* C5: MulVVS with 2 parties, x private to one rank and y to the other in
\* either assignment of owners, and a Beaver pair with a0*a1 = c0 + c1:
\* the two returned values satisfy z0 + z1 = x*y mod 2^k.
C5_MulVVSCorrect ==
  (/\ call.op = "MulVVS" /\ n = 2
   /\ store["x"].owner # store["y"].owner
   /\ ring_mul(VvsBits, res[0].a, res[1].a) = ring_add(VvsBits, res[0].c, res[1].c)) =>
    /\ \A p \in Parties : res[p].st = "ok"
    /\ ring_add(VvsBits, res[0].v, res[1].v) = ring_mul(VvsBits, PrivX, PrivY)

\* rank 1 owns x and rank 0 owns y, the masks and the product are not zero
C5_Witness ==
  /\ call.op = "MulVVS" /\ n = 2
  /\ store["x"].owner = 1 /\ store["y"].owner = 0
  /\ res[0].a # 0 /\ res[1].a # 0 /\ res[0].c # 0
  /\ res[0].st = "ok" /\ res[1].st = "ok"
  /\ ring_mul(VvsBits, PrivX, PrivY) # 0
  /\ ring_add(VvsBits, res[0].v, res[1].v) = ring_mul(VvsBits, PrivX, PrivY)

\* the last invocation ran a two-operand kernel on operands of two
\* different fields
FieldMismatch ==
  /\ call.op \in {"AddAP", "AddAA", "MulAP", "MulAA", "MatMulAP", "MatMulAA",
                  "MulA1B", "MulVVS"}
  /\ store[call.x].field # store[call.y].field

\* C6 as claimed: a two-operand kernel on operands of two different fields
\* ends, on every party, in a fatal error before the party communicates
\* and before any replay-cache entry is changed.
C6_MismatchFatalFirst ==
  FieldMismatch =>
    /\ \A p \in Parties : res[p].st = "fatal" /\ res[p].comm = 0
    /\ ~call.dirty

\* AddAP on operands of two different fields returned normally on rank 1,
\* with the unchanged share of its first operand
C6_Witness ==
  /\ FieldMismatch /\ call.op = "AddAP"
  /\ res[0].st = "fatal"
  /\ res[1].st = "ok" /\ res[1].v = store["x"].sh[1]

\* the chain of conversions started from an arithmetic sharing and ran
\* A2V, V2A, A2P
PrivateRoundTrip == store["x"].ty = "A" /\ hist = <<"A2V", "V2A", "A2P">>
\* the chain started from a private value whose non-owners hold arbitrary
\* placeholders and ran V2A, A2P
PrivateReshare == store["x"].ty = "V" /\ hist = <<"V2A", "A2P">>

\* C7: A2P(V2A(A2V(share_of(x), r))) returns x on every party for every
\* owner r and every sharing of x, and V2A followed by A2P returns the
\* owner's value whatever placeholder the non-owner parties hold.
C7_PrivateRoundTrip ==
  /\ PrivateRoundTrip =>
       \A p \in Parties : res[p].st = "ok" /\ res[p].v = Plain("x")
  /\ PrivateReshare =>
       \A p \in Parties :
         res[p].st = "ok" /\ res[p].v = store["x"].sh[store["x"].owner]

\* three parties ran the round trip on a sharing of a non-zero secret whose
\* rank-0 share differs from the secret
C7_Witness ==
  /\ PrivateRoundTrip /\ n = 3
  /\ Plain("x") # 0 /\ store["x"].sh[0] # Plain("x")
  /\ \A p \in Parties : res[p].v = Plain("x")

\* the chain started from a public value and ran P2A, A2P
PublicRoundTrip ==
  /\ store["x"].ty = "P" /\ Len(hist) >= 2
  /\ hist[1] = "P2A" /\ hist[2] = "A2P"

\* C8: A2P(P2A(x)) returns x on every party for every public x.
C8_PublicRoundTrip ==
  (PublicRoundTrip /\ Len(hist) = 2) =>
    \A p \in Parties : res[p].st = "ok" /\ res[p].v = store["x"].sh[p]

\* three parties ran P2A then A2P on a non-zero public value
C8_Witness ==
  /\ PublicRoundTrip /\ Len(hist) = 2 /\ n = 3
  /\ store["x"].sh[0] # 0 /\ res[2].v = store["x"].sh[2]

\* C10: SquareA returns z_i = b_i + 2*X*a_i (rank 0 adds X*X) with X the
\* opened or cached x - a, and the shares sum to x*x mod 2^k.
C10_SquareCorrect ==
  call.op = "SquareA" =>
    LET k == store[call.x].field
        X == ring_sub(k, Plain(call.x), MaskA)
    IN /\ \A p \in Parties :
            /\ res[p].st = "ok"
            /\ res[p].x_a = X
            /\ res[p].v = (res[p].b + 2 * X * res[p].a
                            + (IF p = 0 THEN X * X ELSE 0)) % Pow2(k)
       /\ Recon = ring_mul(k, Plain(call.x), Plain(call.x))

\* a square took x - a from the cache after an earlier call had opened it,
\* and its result is not zero
C10_Witness ==
  /\ call.op = "SquareA" /\ res[0].x_hit /\ res[0].comm = 0
  /\ prev.op # "none" /\ Recon # 0 /\ res[0].x_a # 0

\* the operands of the last matrix multiplication, as the kernel saw them
DotX == View(call.x, call.xt)
DotY == View(call.y, call.yt)
\* the secret matrix an arithmetic sharing of matrices represents
PlainDot(v) == allReduce_m(v.field, v.sh)
\* the matrix the shares returned by the last invocation reconstruct to
ReconDot == allReduce_m(store[call.x].field, [p \in Parties |-> res[p].v])
\* the dot triple of the last invocation: (sum a) dot (sum b) = sum c
DotTripleOk ==
  ring_mmul(store[call.x].field,
            allReduce_m(store[call.x].field, [p \in Parties |-> res[p].a]),
            allReduce_m(store[call.x].field, [p \in Parties |-> res[p].b]))
    = allReduce_m(store[call.x].field, [p \in Parties |-> res[p].c])
\* the last invocation is MatMulAA on shape-compatible matrices
DotCall ==
  /\ call.op = "MatMulAA" /\ "xt" \in DOMAIN call
  /\ DotX.sh[0].c = DotY.sh[0].r

\* C11: MatMulAA on an m x n sharing x and an n x p sharing y, with a dot
\* triple satisfying (sum a) dot (sum b) = sum c, returns on every party a
\* share of shape (rows(x), cols(y)), and the shares sum to the matrix
\* product x dot y mod 2^k (X dot b_i and a_i dot Y, in this order).
C11_MatMulAACorrect ==
  (DotCall /\ DotTripleOk) =>
    /\ \A p \in Parties :
         /\ res[p].st = "ok"
         /\ res[p].v.r = DotX.sh[p].r
         /\ res[p].v.c = DotY.sh[p].c
    /\ ReconDot = ring_mmul(store[call.x].field, PlainDot(DotX), PlainDot(DotY))

\* a product of a 2 x 1 by a 1 x 2 matrix, or one of 2 x 2 matrices where
\* swapping the operands of X dot b changes the share
C11_Witness ==
  /\ DotCall /\ DotTripleOk
  /\ res[0].st = "ok"
  /\ n = MaxParties
  /\ \/ DotX.sh[0].r = 2 /\ DotX.sh[0].c = 1 /\ DotY.sh[0].c = 2
     \/ /\ DotX.sh[0].r = 2 /\ DotX.sh[0].c = 2 /\ DotY.sh[0].c = 2
        /\ ring_mmul(store[call.x].field, res[1].x_a, res[1].b)
             # ring_mmul(store[call.x].field, res[1].b, res[1].x_a)

\* C12: a party whose rank is neither 0 nor 1, and every party when both
\* operands have the same owner, ends MulVVS in a fatal error: it returns no
\* value and does not stay blocked on a receive.
C12_ViolationsFatal ==
  call.op = "MulVVS" =>
    \A p \in Parties :
      (p \notin {0, 1} \/ store["x"].owner = store["y"].owner) =>
        res[p].st = "fatal"

\* rank 2 owns x and rank 0 owns y: rank 2 has sent its masked input and
\* waits for rank 1, which failed as a non-owner before sending
C12_Witness ==
  /\ call.op = "MulVVS" /\ n = 3
  /\ store["x"].owner = 2 /\ store["y"].owner = 0
  /\ res[1].st = "fatal" /\ res[1].comm = 0
  /\ res[2].st = "blocked" /\ res[2].comm = 1

\* the bit the boolean sharing y represents: the XOR of the lowest bits
BitOfY == ((store["y"].sh[0] % 2) + (store["y"].sh[1] % 2)) % 2

\* C13: MulA1B with 2 parties, any sharing (x0, x1) of x and any ring values
\* y0, y1 as the shares of the bit: the returned shares sum to
\* x * ((y0 & 1) XOR (y1 & 1)) mod 2^k.
C13_MulA1BCorrect ==
  (call.op = "MulA1B" /\ n = 2) =>
    /\ \A p \in Parties : res[p].st = "ok"
    /\ Recon = ring_mul(store["x"].field, Plain("x"), BitOfY)

\* the shares of the bit are not 0 or 1, their low bits differ and x is
\* not zero
C13_Witness ==
  /\ call.op = "MulA1B" /\ n = 2
  /\ store["y"].sh[0] = 6 /\ store["y"].sh[1] = 3
  /\ Plain("x") = 5 /\ store["x"].sh[0] = 7
  /\ Recon = 5

\* Wrap(x0, x1): the sum of the two shares overflows the ring
WrapOfX ==
  IF store["x"].sh[0] + store["x"].sh[1] >= Pow2(store["x"].field) THEN 1 ELSE 0
\* MSB(x): the top bit of the secret
MsbOfX == Plain("x") \div Pow2(store["x"].field - 1)
\* the wrap indicator the shares returned by computeMW reconstruct to
ReconMW ==
  ring_add(getTruncField(res[0].bits), res[0].mw, res[1].mw)
\* the private-multiplication pair of the last invocation: a0*a1 = c0 + c1
PrivPairOk ==
  ring_mul(getTruncField(res[0].bits), res[0].a, res[1].a)
    = ring_add(getTruncField(res[0].bits), res[0].c, res[1].c)

\* C14: TruncAPr2 with 2 parties, |x| < 2^(k-2), any sharing of x and
\* 0 < bits < k-2: the shares of computeMW reconstruct in the truncation
\* ring to Wrap(x0, x1) + MSB(x), and the outputs
\* (x_i >> bits) - MW_i * 2^(k-bits) + rank sum to within 1 of x >> bits.
C14_TruncPr2WithinOne ==
  (/\ call.op = "TruncAPr2" /\ n = 2
   /\ SignedPlain < Pow2(store["x"].field - 2)
   /\ 0 - SignedPlain < Pow2(store["x"].field - 2)
   /\ res[0].bits < store["x"].field - 2
   /\ PrivPairOk) =>
    LET e == SignedPlain \div Pow2(res[0].bits)
    IN /\ \A p \in Parties : res[p].st = "ok"
       /\ ReconMW = WrapOfX + MsbOfX
       /\ SignedRecon - e <= 1
       /\ e - SignedRecon <= 1

\* a negative x whose shares wrap, in the wide field with the narrower
\* truncation ring: the indicator is 2 and the result is off by one
C14_Witness ==
  /\ call.op = "TruncAPr2" /\ n = 2 /\ store["x"].field = TruncWideBits
  /\ res[0].bits = 2 /\ PrivPairOk
  /\ SignedPlain < 0 /\ 0 - SignedPlain < Pow2(store["x"].field - 2)
  /\ WrapOfX = 1 /\ ReconMW = 2
  /\ res[0].st = "ok" /\ res[1].st = "ok"
  /\ SignedRecon - (SignedPlain \div Pow2(2)) = 1

\* C15: for every number of parties and every draw of the randomness, the
\* secret a RandA sharing represents, the sum of all shares mod 2^k read as
\* a signed value, lies in [-2^(k-2), 2^(k-2)).
C15_RandInRange ==
  call.op = "RandA" =>
    /\ SignedRecon < Pow2(store["x"].field - 2)
    /\ SignedRecon >= 0 - Pow2(store["x"].field - 2)

\* two parties both drew an element with all bits above the lowest two set:
\* each share is 2^(k-2) - 1 and the secret is 2^(k-1) - 2
C15_Witness ==
  /\ call.op = "RandA" /\ n = 2
  /\ \A p \in Parties : res[p].v = Pow2(store["x"].field - 2) - 1
  /\ SignedRecon = Pow2(store["x"].field - 1) - 2

\* C16: AddAP on a sharing lhs of x and a public p of the same field: rank
\* 0 returns lhs + p, every other rank returns its lhs unchanged, so the
\* shares sum to x + p mod 2^k, and no party communicates.
C16_AddAPOnce ==
  (call.op = "AddAP" /\ store["x"].field = store["y"].field) =>
    /\ \A p \in Parties :
         /\ res[p].st = "ok"
         /\ res[p].comm = 0
         /\ res[p].v = IF p = 0
                         THEN ring_add(store["x"].field, store["x"].sh[0],
                                       store["y"].sh[0])
                         ELSE store["x"].sh[p]
    /\ Recon = ring_add(store["x"].field, Plain("x"), store["y"].sh[0])

\* three parties added a public value that is neither zero nor a multiple
\* of the ring size when counted once per party
C16_Witness ==
  /\ call.op = "AddAP" /\ n = 3
  /\ store["y"].sh[0] = 3 /\ Plain("x") = 6
  /\ res[1].v = store["x"].sh[1] /\ res[2].v = store["x"].sh[2]
  /\ Recon = 1

\* the triple of the multiplication being made, as dealt to the ranks
DealtTriple ==
  [seed |-> call'.seed, over |-> 0,
   a |-> [q \in Parties |-> res'[q].a],
   b |-> [q \in Parties |-> res'[q].b],
   c |-> [q \in Parties |-> res'[q].c]]

\* the operand id in the world where the secret of "x" is larger by d and
\* the difference lies in the share of rank o
ShiftedArg(id, o, d) ==
  IF id = "x"
    THEN [Arg(id) EXCEPT !.sh[o] = ring_add(store[id].field, @, d)]
    ELSE Arg(id)

\* the triple of that world, tr being the one dealt: rank o holds the masks
\* of "x" larger by d, and the share of c that makes
\* (sum a) * (sum b) = sum c; rank p holds what it was dealt
ShiftedTriple(tr, p, o, d) ==
  LET k == store[call'.x].field
      a2 == IF call'.x = "x" THEN [tr.a EXCEPT ![o] = ring_add(k, @, d)] ELSE tr.a
      b2 == IF call'.y = "x" THEN [tr.b EXCEPT ![o] = ring_add(k, @, d)] ELSE tr.b
      ab == ring_mul(k, allReduce(k, a2), allReduce(k, b2))
  IN [tr EXCEPT !.a = a2, !.b = b2, !.c[o] = ring_sub(k, ab, tr.c[p])]

\* what rank p observes of a MulAA whose MulOpen returned o: its triple
\* shares, the opened values and the share it returns
ViewFrom(p, k, o) ==
  [a |-> o.a, b |-> o.b, c |-> o.c, x_a |-> o.x_a, y_b |-> o.y_b,
   v |-> MulAA_share(p, k, o)]

\* what rank p observes of the multiplication being made
ActualView(p) ==
  [a |-> res'[p].a, b |-> res'[p].b, c |-> res'[p].c, x_a |-> res'[p].x_a,
   y_b |-> res'[p].y_b, v |-> res'[p].v]

\* rank p observes of the same multiplication in the world of triple tr2
\* what it observes of the one being made
SameViewShifted(p, d, tr2) ==
  \E o2 \in {MulOpen(p, ShiftedArg(call'.x, 1 - p, d),
                     ShiftedArg(call'.y, 1 - p, d), FALSE, tr2)} :
    ViewFrom(p, store[call'.x].field, o2) = ActualView(p)

\* C17: in every MulAA of two parties, first or reusing cached openings,
\* for each party and each other secret x' = x + d there is an execution on
\* x' (the other party holding other shares and masks) in which the party
\* has the same own shares, the same own triple shares, the same opened
\* values X and Y and the same result share.
C17_OpeningHidesSecret ==
  [][(call'.op = "MulAA" /\ ncalls' = ncalls + 1 /\ n = 2) =>
       \E tr \in {DealtTriple} :
         \A p \in Parties, d \in Ring(store["x"].field) :
           \E tr2 \in {ShiftedTriple(tr, p, 1 - p, d)} :
             SameViewShifted(p, d, tr2)]_vars

\* a second MulAA of two parties that took the opening of x from the cache
C17_Witness ==
  /\ call.op = "MulAA" /\ n = 2 /\ prev.op = "MulAA"
  /\ call.x = "x" /\ call.y = "y"
  /\ res[0].x_hit /\ ~res[0].y_hit
  /\ res[0].st = "ok"

\* the value the all-reduce returned when the opening e of the operand id
\* was stored: the secret minus the mask the descriptor of e replays
OpenedOf(id, e) ==
  ring_sub(store[id].field, Plain(id),
           allReduce(store[id].field,
                     [q \in Parties |->
                        MaskShare(store[id].field, e.seed, e.ctr, q, TRUE, e)]))

\* the entry e of the operand id, on rank p, is untouched
EntryIntact(p, id, e) ==
  e.status = "Replay" => e.open = OpenedOf(id, e)

SetCalls(p, id) ==
  Cardinality({i \in DOMAIN res[p].sets : res[p].sets[i] = id})

\* C19: every MulOpen stores at most one opening per operand identity
\* (storage); when x and y are the same storage, seen the same way or not
\* (x transposed dot x), and its entry is enabled and not yet opened,
\* exactly one SetCache is made for it.
C19_OneOpeningPerIdentity ==
  (call.op = "MatMulAA" /\ "xt" \in DOMAIN call) =>
    \A p \in Parties :
      /\ \A id \in Ids : SetCalls(p, id) <= 1
      /\ (call.x = call.y /\ call.xen /\ res[p].st = "ok") =>
           SetCalls(p, call.x) = 1

\* x transposed dot x with caching on for x: two SetCache calls for the one
\* storage, and the entry is left with the opening of the second operand
C19_Witness ==
  /\ call.op = "MatMulAA" /\ "xt" \in DOMAIN call
  /\ call.x = "x" /\ call.y = "x" /\ call.xt /\ ~call.yt /\ call.xen
  /\ res[0].st = "ok"
  /\ res[0].sets = <<"x", "x">>
  /\ res[0].y_b # res[0].x_a
  /\ cache[0]["x"].dot.open = res[0].y_b

\* the step runs one of the kernels built on the multiplication engine
MulStep ==
  /\ ncalls' = ncalls + 1
  /\ call'.op \in {"MulAA", "MatMulAA", "SquareA", "MulA1B"}
\* the entry the step's kernel consults for the operand id, before the step
EntryBefore(p, id) ==
  IF call'.op = "MatMulAA" THEN cache[p][id].dot ELSE cache[p][id].elt
\* the step opened x - a (y - b) with an all-reduce against the mask drawn
\* for this very call
OpensX(p) ==
  /\ res'[p].comm >= 1
  /\ \A q \in Parties : res'[q].a = Prg(store["x"].field, call'.seed, q)
  /\ res'[p].x_a = allReduce(store["x"].field,
                             [q \in Parties |->
                                ring_sub(store["x"].field, store[call'.x].sh[q],
                                         res'[q].a)])
OpensY(p) ==
  /\ res'[p].comm >= 1
  /\ \A q \in Parties : res'[q].b = Prg(store["x"].field, call'.seed, n + q)
  /\ res'[p].y_b = allReduce(store["x"].field,
                             [q \in Parties |->
                                ring_sub(store["x"].field, store[call'.y].sh[q],
                                         res'[q].b)])

\* an opening appears in the cache only by a multiplication against the
\* operand made while caching is enabled for it
StoredOnlyWhileEnabled ==
  \A p \in Parties, id \in Ids :
    (\/ cache'[p][id].elt.status = "Replay" /\ cache[p][id].elt.status = "Init"
     \/ cache'[p][id].dot.status = "Replay" /\ cache[p][id].dot.status = "Init") =>
      /\ MulStep
      /\ id \in {call'.x, call'.y}
      /\ cache[p][id].enabled
\* a multiplication reuses an opening only of an operand whose caching is
\* enabled, and then the stored one
ReusedOnlyWhileEnabled ==
  MulStep =>
    \A p \in Parties :
      /\ res'[p].x_hit /\ call'.op # "SquareA" =>
           /\ cache[p][call'.x].enabled
           /\ res'[p].x_a = EntryBefore(p, call'.x).open
      /\ res'[p].y_hit =>
           /\ cache[p][call'.y].enabled
           /\ res'[p].y_b = EntryBefore(p, call'.y).open
\* a multiplication against an operand v whose caching is disabled reuses
\* nothing, opens v minus the mask of its own triple, and leaves no entry
AfterDisable ==
  MulStep =>
    \A p \in Parties :
      /\ ~cache[p][call'.x].enabled =>
           /\ ~res'[p].x_hit
           /\ call'.op # "MulA1B" => OpensX(p)
           /\ cache'[p][call'.x] = NoEntry
      /\ ~cache[p][call'.y].enabled =>
           /\ call'.op # "SquareA" => ~res'[p].y_hit
           /\ call'.op \in {"MulAA", "MatMulAA"} => OpensY(p)
           /\ cache'[p][call'.y] = NoEntry

\* C20: an opening is stored for an operand only by a multiplication made
\* while caching is enabled for it and reused only while caching stays
\* enabled; after SetBeaverCache(v, false) the next multiplication against
\* v reuses no earlier opening, opens v - a by an all-reduce against the
\* mask of the triple drawn for that call, and stores nothing for v.
C20_CacheLifecycle ==
  [][StoredOnlyWhileEnabled /\ ReusedOnlyWhileEnabled /\ AfterDisable]_vars

\* x was cached by a first MulAA, then SetBeaverCache(x, false) ran, then a
\* second MulAA against x opened it again and left no entry
C20_Witness ==
  /\ prev.op = "MulAA" /\ prev.x = "x" /\ prev.xen /\ ~prev.xhit
  /\ call.op = "MulAA" /\ call.x = "x" /\ call.y = "y"
  /\ call.ctl /\ ~call.xen
  /\ ~res[0].x_hit /\ res[0].comm >= 1
  /\ \A p \in Parties : cache[p]["x"] = NoEntry

\* the kernels of the caller contract of C21
SyncKernels ==
  {"MulAA", "MatMulAA", "MulA1B", "SquareA", "A2P", "A2V", "TruncA", "TruncAPr"}
\* the hit decisions of rank p in the last invocation, if it made any
HitsOf(p) ==
  IF "x_hit" \in DOMAIN res[p] THEN <<res[p].x_hit, res[p].y_hit>> ELSE <<>>
\* what decides a hit for the operand id on rank p: the enable flag and the
\* states of its two entries
HitState(p, id) ==
  <<cache[p][id].enabled, cache[p][id].elt.status, cache[p][id].dot.status>>

\* C21: when all parties run the same sequence of MulAA, MatMulAA, MulA1B,
\* SquareA, A2P, A2V, TruncA, TruncAPr and SetBeaverCache on the same
\* operands, all parties make the same hit/miss decision for each operand,
\* enter the same all-reduce and gather calls in the same order, and every
\* party returns from every invocation.
C21_NoDesync ==
  /\ \A p, q \in Parties : \A id \in Ids : HitState(p, id) = HitState(q, id)
  /\ call.op \in SyncKernels =>
       \A p, q \in Parties :
         /\ HitsOf(p) = HitsOf(q)
         /\ Collectives(p) = Collectives(q)
         /\ Len(Collectives(p)) = res[p].comm
         /\ res[p].st = "ok"

\* three parties ran MulAA(x, y) twice with caching on x: in the second run
\* each of them hit on x, missed on y and entered the one all-reduce of y-b
C21_Witness ==
  /\ n = 3 /\ call.op = "MulAA" /\ prev.op = "MulAA"
  /\ call.x = "x" /\ call.y = "y"
  /\ \A p \in Parties :
       /\ res[p].x_hit /\ ~res[p].y_hit
       /\ Collectives(p) = <<"open(y-b)">>
       /\ res[p].st = "ok"

\* the value an all-reduce of x - a (y - b) over the shares of the last
\* invocation returns
OpenedX ==
  allReduce(store[call.x].field,
            [q \in Parties |->
               ring_sub(store[call.x].field, store[call.x].sh[q], res[q].a)])
OpenedY ==
  allReduce(store[call.y].field,
            [q \in Parties |->
               ring_sub(store[call.y].field, store[call.y].sh[q], res[q].b)])

\* C22 as claimed: every MulAA invocation performs exactly one opening
\* round, or none when both operands hit the replay cache.
C22_OneRoundOrZero ==
  call.op = "MulAA" =>
    \A p \in Parties :
      res[p].comm = IF res[p].x_hit /\ res[p].y_hit THEN 0 ELSE 1

\* C22 as amended: a MulAA invocation opens nothing when both operands hit
\* the cache, only the other operand (one all-reduce) when exactly one
\* hits, and when neither hits both maskings, in one batched all-reduce if
\* vectorization is not disabled and in two successive all-reduce calls,
\* x - a then y - b, if it is.
C22_RoundsByConfig ==
  call.op = "MulAA" =>
    \A p \in Parties :
      /\ res[p].comm = Len(Collectives(p))
      /\ Collectives(p) =
           IF res[p].x_hit /\ res[p].y_hit THEN <<>>
           ELSE IF res[p].x_hit THEN <<"open(y-b)">>
           ELSE IF res[p].y_hit THEN <<"open(x-a)">>
           ELSE IF novec THEN <<"open(x-a)", "open(y-b)">>
           ELSE <<"open(x-a,y-b)">>
      /\ res[p].comm = IF res[p].x_hit /\ res[p].y_hit THEN 0
                       ELSE IF res[p].x_hit \/ res[p].y_hit THEN 1
                       ELSE IF novec THEN 2 ELSE 1
      /\ ~res[p].x_hit => res[p].x_a = OpenedX
      /\ ~res[p].y_hit => res[p].y_b = OpenedY

\* vectorization is disabled and neither operand of a MulAA hit the cache:
\* every party opened x - a and then y - b, two rounds
C22_Witness ==
  /\ call.op = "MulAA" /\ novec /\ call.x # call.y
  /\ \A p \in Parties :
       /\ ~res[p].x_hit /\ ~res[p].y_hit
       /\ res[p].comm = 2
       /\ res[p].x_a = OpenedX /\ res[p].y_b = OpenedY

\* the step is one invocation of SetBeaverCache
CacheControlStep == ncalls' = ncalls /\ call' = call /\ touched'
\* the identities with an entry or an enable flag the step changed on some
\* party
ChangedIds == {id \in Ids : \E p \in Parties : cache'[p][id] # cache[p][id]}

\* C23: the replay cache of a party changes only in MulAA, MatMulAA, MulA1B
\* and SquareA and in SetBeaverCache; every other kernel leaves every entry
\* and every enable flag as it was, and SetBeaverCache changes only the
\* entries of the given value's storage and of its secondary component.
C23_CacheFrame ==
  [][/\ cache' # cache => MulStep \/ CacheControlStep
     /\ (ncalls' = ncalls + 1 /\ ~MulStep) => cache' = cache
     /\ CacheControlStep =>
          \E v \in Ids : ChangedIds \subseteq ({v} \cup {store[v].imag})]_vars

\* caching is on for x and x - a is stored, and the kernel that ran last is
\* none of the multiplications
C23_Witness ==
  /\ call.op \in {"P2A", "A2P", "A2V", "V2A", "NegateA", "AddAP", "AddAA",
                  "MulAP", "MatMulAP", "LShiftA"}
  /\ prev.op \in {"MulAA", "SquareA", "MatMulAA"}
  /\ \A p \in Parties :
       /\ cache[p]["x"].enabled
       /\ cache[p]["x"].elt.status = "Replay" \/ cache[p]["x"].dot.status = "Replay"
       /\ ~cache[p]["y"].enabled

====
